---- MODULE Spec2Model ----
(***************************************************************************)
(* Verification model of the slack-docs-bot answering pipeline:           *)
(*   - the language-model provider factory and its process-wide cache     *)
(*     (src/retrieval/llm_provider.py),                                     *)
(*   - the retry wrapper around the query engine                           *)
(*     (src/retrieval/query_engine.py),                                     *)
(*   - the chat handlers and their background workers                      *)
(*     (src/bot/handlers.py),                                               *)
(*   - the content loaders, the stored chunks and query()                  *)
(*     (src/ingestion, src/storage, src/retrieval/query_engine.py),        *)
(*   - the re-index script (scripts/reindex.py), the settings              *)
(*     (src/config/settings.py) and get_llm under concurrent queries.      *)
(***************************************************************************)
EXTENDS Integers, Sequences, FiniteSets, TLC

(***************************************************************************)
(* Bounds of the model.                                                    *)
(***************************************************************************)
\* longest model listing the local backend reports
MaxModels == 2
\* constructor runs (OpenAI(...) / Ollama(...)) explored in one behaviour
MaxHandles == 2

(***************************************************************************)
(* Settings as get_llm reads them.                                         *)
(***************************************************************************)
OPENAI_API_KEY == ""
OPENAI_API_BASE == "https://api.openai.com/v1"
LLM_MODEL == "gpt-4o-mini"
OLLAMA_MODEL == "llama3.2"
OLLAMA_BASE_URL == "http://localhost:11434"
OLLAMA_TIMEOUT == 120
OLLAMA_CONTEXT_WINDOW == 8192
\* fixed generation parameters of the hosted handle
OPENAI_TEMPERATURE == "0.1"
OPENAI_MAX_TOKENS == 1024

(***************************************************************************)
(* Inputs.  An optional string is <<>> (Python None) or <<s>>.             *)
(***************************************************************************)
None == <<>>
Some(s) == <<s>>

\* values the LLM_PROVIDER environment variable is given
Providers == {"openai", "ollama", "invalid_provider", "openai:a"}

\* system_prompt arguments of get_llm
Prompts == {None, Some("None"), Some("a:None")}

\* model names a listing may hold
ModelNames == {"llama3.2", "llama3.2:latest", "none"}

\* one element of the "models" array: a JSON object with or without a
\* "name" member, or a JSON value that is not an object
ModelItems ==
    {[obj |-> TRUE, name |-> Some(n)] : n \in ModelNames}
    \cup {[obj |-> TRUE, name |-> None], [obj |-> FALSE, name |-> None]}

\* a listing names every model once
Listings ==
    UNION {{l \in [1..k -> ModelItems] :
                \A i, j \in 1..k : l[i] = l[j] => i = j} : k \in 0..MaxModels}

\* the answer of GET {base_url}/api/tags
\*   net : "refused" | "timeout" | "http_error" | "ok"
\*   json: "invalid" (body is not JSON) | "array" (JSON, top level not an
\*         object) | "object"
\*   field: the "models" member: "absent" | "null" | "list"
NoResponse == [net |-> "none", json |-> "none", field |-> "absent", models |-> <<>>]

Responses ==
    {[net |-> n, json |-> "none", field |-> "absent", models |-> <<>>] :
        n \in {"refused", "timeout", "http_error"}}
    \cup {[net |-> "ok", json |-> j, field |-> "absent", models |-> <<>>] :
        j \in {"invalid", "array", "object"}}
    \cup {[net |-> "ok", json |-> "object", field |-> "null", models |-> <<>>]}
    \cup {[net |-> "ok", json |-> "object", field |-> "list", models |-> l] :
        l \in Listings}

(***************************************************************************)
(* Pure helpers of get_llm.                                                *)
(***************************************************************************)
\* str() as an f-string applies it to an optional string
PyStr(opt) == IF opt = None THEN "None" ELSE opt[1]

\* cache_key = f"{provider}:{system_prompt}"
CacheKey(provider, system_prompt) == provider \o ":" \o PyStr(system_prompt)

\* ', '.join(names)
RECURSIVE Join(_)
Join(names) ==
    IF names = <<>> THEN ""
    ELSE IF Len(names) = 1 THEN names[1]
    ELSE names[1] \o ", " \o Join(Tail(names))

\* m.get("name", "")
NameOf(m) == IF m.name = None THEN "" ELSE m.name[1]

\* model_names = [m.get("name", "") for m in models]
ModelNamesOf(models) == [i \in 1..Len(models) |-> NameOf(models[i])]

InSeq(x, s) == \E i \in 1..Len(s) : s[i] = x

\* variant: the ':latest' alternative is left out
ModelFound_ExactOnly(model, model_names) == InSeq(model, model_names)

\* model in model_names or f"{model}:latest" in model_names
ModelFound(model, model_names) ==
    InSeq(model, model_names) \/ InSeq(model \o ":latest", model_names)

CannotConnectMsg(base_url) ==
    "Cannot connect to Ollama at " \o base_url \o ". Is Ollama running?"

ModelNotFoundMsg(model, model_names) ==
    "Model '" \o model \o "' not found in Ollama. "
    \o "Available models: "
    \o (IF model_names # <<>> THEN Join(model_names) ELSE "none") \o ". "
    \o "Run: ollama pull " \o model

\* text of the JSON decoder's ValueError
JsonErrorText == "Expecting value: line 1 column 1 (char 0)"

InvalidResponseMsg(base_url, e) ==
    "Invalid response from Ollama at " \o base_url \o ": " \o e

InvalidProviderMsg(provider) ==
    "Invalid LLM_PROVIDER: " \o provider \o ". Must be 'openai' or 'ollama'."

\* Outcome of the health check of the ollama branch on one probe answer:
\* the exception that leaves get_llm, or "ok" when construction goes ahead.
HealthCheck(resp) ==
    IF resp.net # "ok"
    THEN [outcome |-> "ConnectionError", msg |-> CannotConnectMsg(OLLAMA_BASE_URL)]
    ELSE IF resp.json = "invalid"
    THEN [outcome |-> "ConnectionError",
          msg |-> InvalidResponseMsg(OLLAMA_BASE_URL, JsonErrorText)]
    ELSE IF resp.json = "array"
    THEN [outcome |-> "AttributeError",
          msg |-> "'list' object has no attribute 'get'"]
    ELSE IF resp.field = "null"
    THEN [outcome |-> "TypeError", msg |-> "'NoneType' object is not iterable"]
    ELSE IF \E i \in 1..Len(resp.models) : ~resp.models[i].obj
    THEN [outcome |-> "AttributeError",
          msg |-> "'int' object has no attribute 'get'"]
    ELSE LET model_names == ModelNamesOf(resp.models)
             model_found == ModelFound(OLLAMA_MODEL, model_names)
         IN  IF model_names = <<>> \/ ~model_found
             THEN [outcome |-> "ConnectionError",
                   msg |-> ModelNotFoundMsg(OLLAMA_MODEL, model_names)]
             ELSE [outcome |-> "ok", msg |-> ""]

(***************************************************************************)
(* Handles.                                                                *)
(***************************************************************************)
NoHandle ==
    [id |-> 0, kind |-> "none", model |-> "", base |-> "", api_key |-> "",
     request_timeout |-> 0, context_window |-> 0, temperature |-> "",
     max_tokens |-> 0, system_prompt |-> None]

\* OpenAI(api_key=..., api_base=..., model=..., temperature=0.1,
\*        max_tokens=1024, system_prompt=system_prompt)
NewOpenAI(id, system_prompt) ==
    [id |-> id, kind |-> "OpenAI", model |-> LLM_MODEL, base |-> OPENAI_API_BASE,
     api_key |-> OPENAI_API_KEY, request_timeout |-> 0, context_window |-> 0,
     temperature |-> OPENAI_TEMPERATURE, max_tokens |-> OPENAI_MAX_TOKENS,
     system_prompt |-> system_prompt]

\* Ollama(model=model, base_url=base_url, request_timeout=...,
\*        context_window=..., system_prompt=system_prompt)
NewOllama(id, system_prompt) ==
    [id |-> id, kind |-> "Ollama", model |-> OLLAMA_MODEL, base |-> OLLAMA_BASE_URL,
     api_key |-> "", request_timeout |-> OLLAMA_TIMEOUT,
     context_window |-> OLLAMA_CONTEXT_WINDOW, temperature |-> "",
     max_tokens |-> 0, system_prompt |-> system_prompt]

(***************************************************************************)
(* State.                                                                  *)
(***************************************************************************)
VARIABLES
    LLM_PROVIDER,   \* settings.LLM_PROVIDER as the environment gives it
    llm_cache,      \* _llm_cache: cache key -> handle
    ctor_count,     \* cache key -> constructor runs for it since the last clear
    next_id,        \* identity of the next handle a constructor creates
    ret             \* the last get_llm call since the last clear: its
                    \* arguments, what it returned or raised, its effects

provider_vars == <<LLM_PROVIDER, llm_cache, ctor_count, next_id, ret>>

EmptyMap == [k \in {} |-> 0]

NoCall ==
    [provider |-> "", prompt |-> None, key |-> "", outcome |-> "none",
     handle |-> NoHandle, msg |-> "", probes |-> 0, built |-> 0,
     resp |-> NoResponse, hit |-> FALSE]

CountOf(k) == IF k \in DOMAIN ctor_count THEN ctor_count[k] ELSE 0

ProviderInit ==
    /\ LLM_PROVIDER = "openai"
    /\ llm_cache = EmptyMap
    /\ ctor_count = EmptyMap
    /\ next_id = 1
    /\ ret = NoCall

(***************************************************************************)
(* get_llm, one action per path through the function.                      *)
(***************************************************************************)
\* variant: the health probe runs before the cache lookup
GetLLMHit_ProbeFirst(system_prompt) ==
    LET provider == LLM_PROVIDER
        cache_key == CacheKey(provider, system_prompt)
    IN  /\ cache_key \in DOMAIN llm_cache
        /\ ret' = [provider |-> provider, prompt |-> system_prompt,
                   key |-> cache_key, outcome |-> "ok",
                   handle |-> llm_cache[cache_key], msg |-> "",
                   probes |-> IF provider = "ollama" THEN 1 ELSE 0,
                   built |-> 0, resp |-> NoResponse, hit |-> TRUE]
        /\ UNCHANGED <<LLM_PROVIDER, llm_cache, ctor_count, next_id>>

\* lines 39-42: the key is in the cache
GetLLMHit(system_prompt) ==
    LET provider == LLM_PROVIDER
        cache_key == CacheKey(provider, system_prompt)
    IN  /\ cache_key \in DOMAIN llm_cache
        /\ ret' = [provider |-> provider, prompt |-> system_prompt,
                   key |-> cache_key, outcome |-> "ok",
                   handle |-> llm_cache[cache_key], msg |-> "", probes |-> 0,
                   built |-> 0, resp |-> NoResponse, hit |-> TRUE]
        /\ UNCHANGED <<LLM_PROVIDER, llm_cache, ctor_count, next_id>>

\* variant: the new handle is returned but not written to the cache
GetLLMOpenAI_NoStore(system_prompt) ==
    LET provider == LLM_PROVIDER
        cache_key == CacheKey(provider, system_prompt)
        llm == NewOpenAI(next_id, system_prompt)
    IN  /\ cache_key \notin DOMAIN llm_cache
        /\ provider = "openai"
        /\ next_id <= MaxHandles
        /\ ctor_count' = (cache_key :> CountOf(cache_key) + 1) @@ ctor_count
        /\ next_id' = next_id + 1
        /\ ret' = [provider |-> provider, prompt |-> system_prompt,
                   key |-> cache_key, outcome |-> "ok", handle |-> llm,
                   msg |-> "", probes |-> 0, built |-> 1,
                   resp |-> NoResponse, hit |-> FALSE]
        /\ UNCHANGED <<LLM_PROVIDER, llm_cache>>

\* lines 44-54: miss, provider == "openai"
GetLLMOpenAI(system_prompt) ==
    LET provider == LLM_PROVIDER
        cache_key == CacheKey(provider, system_prompt)
        llm == NewOpenAI(next_id, system_prompt)
    IN  /\ cache_key \notin DOMAIN llm_cache
        /\ provider = "openai"
        /\ next_id <= MaxHandles
        /\ llm_cache' = (cache_key :> llm) @@ llm_cache
        /\ ctor_count' = (cache_key :> CountOf(cache_key) + 1) @@ ctor_count
        /\ next_id' = next_id + 1
        /\ ret' = [provider |-> provider, prompt |-> system_prompt,
                   key |-> cache_key, outcome |-> "ok", handle |-> llm,
                   msg |-> "", probes |-> 0, built |-> 1,
                   resp |-> NoResponse, hit |-> FALSE]
        /\ UNCHANGED LLM_PROVIDER

\* variant: a failed health check is remembered under the key
GetLLMOllama_RemembersFailure(system_prompt, resp) ==
    LET provider == LLM_PROVIDER
        cache_key == CacheKey(provider, system_prompt)
        check == HealthCheck(resp)
        llm == NewOllama(next_id, system_prompt)
    IN  /\ cache_key \notin DOMAIN llm_cache
        /\ provider = "ollama"
        /\ check.outcome = "ok" => next_id <= MaxHandles
        /\ IF check.outcome = "ok"
           THEN /\ llm_cache' = (cache_key :> llm) @@ llm_cache
                /\ ctor_count' = (cache_key :> CountOf(cache_key) + 1) @@ ctor_count
                /\ next_id' = next_id + 1
                /\ ret' = [provider |-> provider, prompt |-> system_prompt,
                           key |-> cache_key, outcome |-> "ok", handle |-> llm,
                           msg |-> "", probes |-> 1, built |-> 1,
                           resp |-> resp, hit |-> FALSE]
           ELSE /\ llm_cache' = (cache_key :> NoHandle) @@ llm_cache
                /\ ret' = [provider |-> provider, prompt |-> system_prompt,
                           key |-> cache_key, outcome |-> check.outcome,
                           handle |-> NoHandle, msg |-> check.msg,
                           probes |-> 1, built |-> 0, resp |-> resp,
                           hit |-> FALSE]
                /\ UNCHANGED <<ctor_count, next_id>>
        /\ UNCHANGED LLM_PROVIDER

\* lines 56-103: miss, provider == "ollama"; resp is what the probe gets
GetLLMOllama(system_prompt, resp) ==
    LET provider == LLM_PROVIDER
        cache_key == CacheKey(provider, system_prompt)
        check == HealthCheck(resp)
        llm == NewOllama(next_id, system_prompt)
    IN  /\ cache_key \notin DOMAIN llm_cache
        /\ provider # "openai"
        /\ provider = "ollama"
        /\ check.outcome = "ok" => next_id <= MaxHandles
        /\ IF check.outcome = "ok"
           THEN /\ llm_cache' = (cache_key :> llm) @@ llm_cache
                /\ ctor_count' = (cache_key :> CountOf(cache_key) + 1) @@ ctor_count
                /\ next_id' = next_id + 1
                /\ ret' = [provider |-> provider, prompt |-> system_prompt,
                           key |-> cache_key, outcome |-> "ok", handle |-> llm,
                           msg |-> "", probes |-> 1, built |-> 1,
                           resp |-> resp, hit |-> FALSE]
           ELSE /\ ret' = [provider |-> provider, prompt |-> system_prompt,
                           key |-> cache_key, outcome |-> check.outcome,
                           handle |-> NoHandle, msg |-> check.msg,
                           probes |-> 1, built |-> 0, resp |-> resp,
                           hit |-> FALSE]
                /\ UNCHANGED <<llm_cache, ctor_count, next_id>>
        /\ UNCHANGED LLM_PROVIDER

\* lines 105-108: miss, any other provider
GetLLMInvalid(system_prompt) ==
    LET provider == LLM_PROVIDER
        cache_key == CacheKey(provider, system_prompt)
    IN  /\ cache_key \notin DOMAIN llm_cache
        /\ provider # "openai"
        /\ provider # "ollama"
        /\ ret' = [provider |-> provider, prompt |-> system_prompt,
                   key |-> cache_key, outcome |-> "ValueError",
                   handle |-> NoHandle, msg |-> InvalidProviderMsg(provider),
                   probes |-> 0, built |-> 0, resp |-> NoResponse,
                   hit |-> FALSE]
        /\ UNCHANGED <<LLM_PROVIDER, llm_cache, ctor_count, next_id>>

GetLLM(system_prompt) ==
    \/ GetLLMHit(system_prompt)
    \/ GetLLMOpenAI(system_prompt)
    \/ \E resp \in Responses : GetLLMOllama(system_prompt, resp)
    \/ GetLLMInvalid(system_prompt)

\* os.environ["LLM_PROVIDER"] = p
SetProvider(p) ==
    /\ p # LLM_PROVIDER
    /\ LLM_PROVIDER' = p
    /\ UNCHANGED <<llm_cache, ctor_count, next_id, ret>>

\* _llm_cache.clear()
ClearCache ==
    /\ llm_cache # EmptyMap
    /\ llm_cache' = EmptyMap
    /\ ctor_count' = EmptyMap
    /\ ret' = NoCall
    /\ UNCHANGED <<LLM_PROVIDER, next_id>>

(***************************************************************************)
(* The query engine as its callers see it: query(question) returns a       *)
(* QueryResult or raises.                                                  *)
(***************************************************************************)
\* questions users ask
Questions == {"how?", "why?"}

\* an exception text is the sequence of its characters; Chars(n, c) is c
\* repeated n times
Chars(n, c) == [i \in 1..n |-> c]

\* length of the long exception text of the model
LongTextLen == 101

\* Source(text_snippet, source_path, source_type, score); a path is the
\* sequence of its fragments, the first being its first four characters
DocsSource ==
    [text_snippet |-> "intro", source_path |-> <<"http", "s://a">>,
     source_type |-> "docs", score |-> 9]
CodeSource ==
    [text_snippet |-> "def f", source_path |-> <<"repo", "/file.py">>,
     source_type |-> "code", score |-> 5]

\* the QueryResults query(question) may return
QueryResults(question) ==
    {[answer |-> "answer to " \o question, sources |-> srcs] :
        srcs \in {<<>>, <<DocsSource, CodeSource>>}}

NoResult == [answer |-> "", sources |-> <<>>]

\* the exceptions query(question) may raise (subclasses of Exception):
\* provider construction, retrieval and generation failures
QueryErrors ==
    {[type |-> "ConnectionError", value |-> <<"d", "o", "w", "n">>],
     [type |-> "ValueError", value |-> <<"b", "a", "d">>],
     [type |-> "RuntimeError", value |-> Chars(LongTextLen, "e")]}

NoError == [type |-> "none", value |-> <<>>]

\* what one call of query(question) does
QueryOutcomes(question) ==
    {[ok |-> TRUE, result |-> r, exc |-> NoError] : r \in QueryResults(question)}
    \cup {[ok |-> FALSE, result |-> NoResult, exc |-> e] : e \in QueryErrors}

(***************************************************************************)
(* query_with_retry: @retry(stop=stop_after_attempt(3),                    *)
(*                          wait=wait_exponential(multiplier=1, min=1,     *)
(*                                                max=10))                 *)
(***************************************************************************)
\* stop_after_attempt(3)
STOP_AFTER_ATTEMPT == 3
\* wait_exponential(multiplier=1, min=1, max=10)
WAIT_MULTIPLIER == 1
WAIT_MIN == 1
WAIT_MAX == 10
\* the decorator passes no reraise argument: the library default
Reraise == FALSE

Min2(a, b) == IF a < b THEN a ELSE b
Max2(a, b) == IF a > b THEN a ELSE b

\* seconds slept after failed attempt n
WaitExponential(n) ==
    Max2(Max2(0, WAIT_MIN), Min2(WAIT_MULTIPLIER * 2 ^ (n - 1), WAIT_MAX))

\* variant: one attempt too many
ShouldStop_OffByOne(n) == n > STOP_AFTER_ATTEMPT

\* the stop condition after attempt n
ShouldStop(n) == n >= STOP_AFTER_ATTEMPT

\* what the caller of query_with_retry receives
NoOutcome == [kind |-> "none", result |-> NoResult, exc |-> NoError, cause |-> NoError]

\* the exception raised once the stop condition holds after failure e
ExhaustedOutcome(e) ==
    IF Reraise
    THEN [kind |-> "raise", result |-> NoResult, exc |-> e, cause |-> NoError]
    ELSE [kind |-> "raise", result |-> NoResult,
          exc |-> [type |-> "RetryError", value |-> <<"RetryError[", e.type, "]">>],
          cause |-> e]

VARIABLES
    rw_pc,            \* "idle" | "attempt" | "wait" | "returned" | "raised"
    rw_question,      \* the question of the call in progress
    attempt_number,   \* retry_state.attempt_number
    rw_calls,         \* how often query(question) was invoked by this call
    rw_log,           \* the outcomes of those invocations, in order
    rw_slept,         \* the sleeps between attempts, in order
    rw_out            \* what the caller received

retry_vars == <<rw_pc, rw_question, attempt_number, rw_calls, rw_log, rw_slept, rw_out>>

RetryInit ==
    /\ rw_pc = "idle"
    /\ rw_question = ""
    /\ attempt_number = 0
    /\ rw_calls = 0
    /\ rw_log = <<>>
    /\ rw_slept = <<>>
    /\ rw_out = NoOutcome

\* the caller invokes query_with_retry(question)
RetryCall(question) ==
    /\ rw_pc \in {"idle", "returned", "raised"}
    /\ rw_pc' = "attempt"
    /\ rw_question' = question
    /\ attempt_number' = 1
    /\ rw_calls' = 0
    /\ rw_log' = <<>>
    /\ rw_slept' = <<>>
    /\ rw_out' = NoOutcome

\* one attempt: query(question) runs and the retry controller decides
RetryAttempt ==
    /\ rw_pc = "attempt"
    /\ \E o \in QueryOutcomes(rw_question) :
        /\ rw_calls' = rw_calls + 1
        /\ rw_log' = Append(rw_log, o)
        /\ IF o.ok
           THEN /\ rw_pc' = "returned"
                /\ rw_out' = [kind |-> "return", result |-> o.result,
                              exc |-> NoError, cause |-> NoError]
                /\ UNCHANGED rw_slept
           ELSE IF ShouldStop(attempt_number)
           THEN /\ rw_pc' = "raised"
                /\ rw_out' = ExhaustedOutcome(o.exc)
                /\ UNCHANGED rw_slept
           ELSE /\ rw_pc' = "wait"
                /\ rw_slept' = Append(rw_slept, WaitExponential(attempt_number))
                /\ UNCHANGED rw_out
    /\ UNCHANGED <<rw_question, attempt_number>>

\* the sleep between two attempts is over
RetryWake ==
    /\ rw_pc = "wait"
    /\ rw_pc' = "attempt"
    /\ attempt_number' = attempt_number + 1
    /\ UNCHANGED <<rw_question, rw_calls, rw_log, rw_slept, rw_out>>

(***************************************************************************)
(* format_response                                                         *)
(***************************************************************************)
\* sources shown by format_response
TOP_SOURCES == 3

RECURSIVE Concat(_)
Concat(frags) == IF frags = <<>> THEN "" ELSE frags[1] \o Concat(Tail(frags))

\* "\n".join(lines)
RECURSIVE JoinLines(_)
JoinLines(lines) ==
    IF lines = <<>> THEN ""
    ELSE IF Len(lines) = 1 THEN lines[1]
    ELSE lines[1] \o "\n" \o JoinLines(Tail(lines))

\* str(i) for the list numbers
DigitStr(i) == CASE i = 1 -> "1" [] i = 2 -> "2" [] i = 3 -> "3" [] OTHER -> "?"

\* source_link.startswith('http')
StartsWithHttp(path) == Len(path) > 0 /\ path[1] = "http"

\* the grave accent that opens and closes inline code; a TLA+ string cannot
\* hold that character, "^" stands for it
BACKTICK == "^"

SourceLine(i, source) ==
    LET source_link == Concat(source.source_path)
    IN  IF source.source_type = "docs" /\ StartsWithHttp(source.source_path)
        THEN DigitStr(i) \o ". <" \o source_link \o "|" \o source_link \o ">"
        ELSE DigitStr(i) \o ". " \o BACKTICK \o source_link \o BACKTICK

\* a formatter that lists every source of the result
ResponseLines_AllSources(result) ==
    <<result.answer, "", "---", "*Sources:*">>
    \o [i \in 1..Len(result.sources) |-> SourceLine(i, result.sources[i])]

\* lines = [result.answer, "", "---", "*Sources:*"] and one line for each
\* of result.sources[:3]
ResponseLines(result) ==
    LET shown == SubSeq(result.sources, 1, Min2(TOP_SOURCES, Len(result.sources)))
    IN  <<result.answer, "", "---", "*Sources:*">>
        \o [i \in 1..Len(shown) |-> SourceLine(i, shown[i])]

format_response(result) == JoinLines(ResponseLines(result))

(***************************************************************************)
(* Chat handlers and background workers.                                   *)
(***************************************************************************)
\* messages the bot posts in one behaviour
MaxMessages == 2

\* characters of the exception text shown to the user
ERROR_TEXT_LIMIT == 100

THINKING_TEXT == ":thinking_face: Searching knowledge base..."
USAGE_TEXT == "Please ask me a question! Example: @bot how do I configure X?"
ERROR_PREFIX == ":x: Sorry, I encountered an error: "

\* an error text that carries the whole exception text
ErrorText_Untruncated(e) == <<ERROR_PREFIX>> \o e.value

\* f":x: Sorry, I encountered an error: {str(e)[:100]}"
ErrorText(e) ==
    <<ERROR_PREFIX>> \o SubSeq(e.value, 1, Min2(ERROR_TEXT_LIMIT, Len(e.value)))

\* event texts are sequences of tokens
MentionToken == "<@U1>"
IsSpace(tok) == tok = " "

RECURSIVE DropSpaces(_)
DropSpaces(toks) ==
    IF toks # <<>> /\ IsSpace(toks[1]) THEN DropSpaces(Tail(toks)) ELSE toks

\* re.sub(r'<@[A-Z0-9]+>\s*', '', user_text)
RECURSIVE RemoveMentions(_)
RemoveMentions(toks) ==
    IF toks = <<>> THEN <<>>
    ELSE IF toks[1] = MentionToken THEN RemoveMentions(DropSpaces(Tail(toks)))
    ELSE <<toks[1]>> \o RemoveMentions(Tail(toks))

RECURSIVE DropTrailingSpaces(_)
DropTrailingSpaces(toks) ==
    IF toks # <<>> /\ IsSpace(toks[Len(toks)])
    THEN DropTrailingSpaces(SubSeq(toks, 1, Len(toks) - 1))
    ELSE toks

\* str.strip()
Strip(toks) == DropTrailingSpaces(DropSpaces(toks))

Channels == {"C1", "D1"}

MentionEvents ==
    {[channel |-> "C1", ts |-> "e1", thread_ts |-> t, text |-> x] :
        t \in {None, Some("t0")},
        x \in {<<MentionToken>>, <<MentionToken, " ">>,
               <<MentionToken, " ", "how?">>, <<"how?", " ", MentionToken>>}}

MessageEvents ==
    {[channel |-> "D1", channel_type |-> ct, subtype |-> st, text |-> x] :
        ct \in {"im", "channel"},
        st \in {None, Some("message_changed"), Some("bot_message")},
        x \in {None, Some(<<" ">>), Some(<<"why?">>), Some(<<" ", "why?", " ">>)}}

VARIABLES
    slack_msgs,   \* the messages the bot posted; the index is the message ts
    workers       \* placeholder ts -> the background thread started for it

bot_vars == <<slack_msgs, workers>>

BotInit ==
    /\ slack_msgs = <<>>
    /\ workers = EmptyMap

\* client.chat_postMessage(channel=, thread_ts=, text=)
PostMessage(channel, thread_ts, text) ==
    Append(slack_msgs,
           [channel |-> channel, thread_ts |-> thread_ts, text |-> <<text>>,
            updates |-> 0])

\* run_query_in_background: thread.start() of _do_query
StartWorker(channel, ts, question) ==
    (ts :> [pc |-> "query", channel |-> channel, ts |-> ts,
            question |-> question, calls |-> 0, text |-> <<>>,
            err |-> NoError]) @@ workers

\* handle_mention
HandleMention(event) ==
    LET channel == event.channel
        thread_ts == IF event.thread_ts # None THEN event.thread_ts
                     ELSE Some(event.ts)
        question == Concat(Strip(RemoveMentions(event.text)))
    IN  /\ Len(slack_msgs) < MaxMessages
        /\ IF question = ""
           THEN /\ slack_msgs' = PostMessage(channel, thread_ts, USAGE_TEXT)
                /\ UNCHANGED workers
           ELSE /\ slack_msgs' = PostMessage(channel, thread_ts, THINKING_TEXT)
                /\ workers' = StartWorker(channel, Len(slack_msgs) + 1, question)

\* a DM handler that answers events of any subtype
HandleDm_AnySubtype(event) ==
    LET channel == event.channel
        question == IF event.text = None THEN ""
                    ELSE Concat(Strip(event.text[1]))
    IN  /\ Len(slack_msgs) < MaxMessages
        /\ IF \/ event.channel_type # "im"
              \/ question = ""
           THEN UNCHANGED <<slack_msgs, workers>>
           ELSE /\ slack_msgs' = PostMessage(channel, None, THINKING_TEXT)
                /\ workers' = StartWorker(channel, Len(slack_msgs) + 1, question)

\* handle_dm
HandleDm(event) ==
    LET channel == event.channel
        question == IF event.text = None THEN ""
                    ELSE Concat(Strip(event.text[1]))
    IN  /\ Len(slack_msgs) < MaxMessages
        /\ IF \/ event.channel_type # "im"
              \/ event.subtype # None
              \/ question = ""
           THEN UNCHANGED <<slack_msgs, workers>>
           ELSE /\ slack_msgs' = PostMessage(channel, None, THINKING_TEXT)
                /\ workers' = StartWorker(channel, Len(slack_msgs) + 1, question)

\* _do_query, try block: result = query(question); format_response(result)
WorkerQuery(ts) ==
    /\ ts \in DOMAIN workers
    /\ workers[ts].pc = "query"
    /\ \E o \in QueryOutcomes(workers[ts].question) :
        workers' = [workers EXCEPT ![ts] =
            [@ EXCEPT !.calls = @ + 1,
                      !.pc = IF o.ok THEN "update" ELSE "report",
                      !.text = IF o.ok THEN <<format_response(o.result)>> ELSE <<>>,
                      !.err = o.exc]]
    /\ UNCHANGED slack_msgs

SlackApiError == [type |-> "SlackApiError", value |-> <<"s", "l", "a", "c", "k">>]

\* a worker that delivers its text as a new message of the channel
ChatUpdate_FreshMessage(channel, ts, text) ==
    Append(slack_msgs,
           [channel |-> channel, thread_ts |-> None, text |-> text,
            updates |-> 0])

\* client.chat_update(channel=, ts=, text=) on the bot's message ts
ChatUpdate(channel, ts, text) ==
    [slack_msgs EXCEPT ![ts] = [@ EXCEPT !.text = text, !.updates = @ + 1]]

\* _do_query, try block: client.chat_update(**update_kwargs)
WorkerUpdate(ts) ==
    /\ ts \in DOMAIN workers
    /\ workers[ts].pc = "update"
    /\ \/ /\ slack_msgs' = ChatUpdate(workers[ts].channel, workers[ts].ts,
                                      workers[ts].text)
          /\ workers' = [workers EXCEPT ![ts].pc = "done"]
       \/ /\ workers' = [workers EXCEPT ![ts].pc = "report",
                                        ![ts].err = SlackApiError]
          /\ UNCHANGED slack_msgs

\* a worker that reports its error in the newest message of the bot
WorkerReport_NewestMessage(ts) ==
    /\ ts \in DOMAIN workers
    /\ workers[ts].pc = "report"
    /\ \/ /\ slack_msgs' = ChatUpdate(workers[ts].channel, Len(slack_msgs),
                                      ErrorText(workers[ts].err))
          /\ workers' = [workers EXCEPT ![ts].pc = "done"]
       \/ /\ workers' = [workers EXCEPT ![ts].pc = "crashed"]
          /\ UNCHANGED slack_msgs

\* _do_query, except block: logger.error and chat_update with the error text
WorkerReport(ts) ==
    /\ ts \in DOMAIN workers
    /\ workers[ts].pc = "report"
    /\ \/ /\ slack_msgs' = ChatUpdate(workers[ts].channel, workers[ts].ts,
                                      ErrorText(workers[ts].err))
          /\ workers' = [workers EXCEPT ![ts].pc = "done"]
       \/ /\ workers' = [workers EXCEPT ![ts].pc = "crashed"]
          /\ UNCHANGED slack_msgs

(***************************************************************************)
(* Content loaders: the docs-site loader and the repository loader.        *)
(***************************************************************************)
\* longest chunk text of the model
MaxTextLen == 250

\* characters of a chunk text kept in a snippet
SNIPPET_LIMIT == 200

\* a text is the sequence of its characters; Text(n) has n characters, a
\* head, a body and a tail that differ
Text(n) ==
    [i \in 1..n |-> IF i = 1 THEN "h" ELSE IF i = n THEN "t" ELSE "m"]

\* a URL or a file path is the sequence of its fragments; "/" and "." are
\* fragments of their own
SiteUrl(rest) == <<"http", "s:", "/", "/", "site", "/">> \o rest

SITEMAP_URL == SiteUrl(<<"sitemap", ".", "xml">>)
ChildSitemap1 == SiteUrl(<<"sitemap-1", ".", "xml">>)
ChildSitemap2 == SiteUrl(<<"sitemap-2", ".", "xml">>)
PageA == SiteUrl(<<"docs", "/", "a">>)
PageB == SiteUrl(<<"docs", "/", "b">>)
PageC == SiteUrl(<<"docs", "/", "c">>)
BlogPage == SiteUrl(<<"blog", "/", "x">>)

\* '/docs/' in u
InDocsPath(u) ==
    \E i \in 1..(Len(u) - 2) : u[i] = "/" /\ u[i + 1] = "docs" /\ u[i + 2] = "/"

\* [u for u in urls if '/docs/' in u]
RECURSIVE FilterDocs(_)
FilterDocs(urls) ==
    IF urls = <<>> THEN <<>>
    ELSE (IF InDocsPath(urls[1]) THEN <<urls[1]>> ELSE <<>>)
         \o FilterDocs(Tail(urls))

\* the <loc> texts that are not empty
RECURSIVE NonEmptyLocs(_)
NonEmptyLocs(locs) ==
    IF locs = <<>> THEN <<>>
    ELSE (IF locs[1] # None THEN <<locs[1]>> ELSE <<>>)
         \o NonEmptyLocs(Tail(locs))

\* what a GET of a sitemap URL gives: a failure (connection, HTTP status,
\* XML parse), or a document with its <sitemap> and <url> locations
FailedSitemap == [ok |-> FALSE, sitemap_locs |-> <<>>, url_locs |-> <<>>]
SitemapIndex(locs) == [ok |-> TRUE, sitemap_locs |-> locs, url_locs |-> <<>>]
UrlSet(locs) == [ok |-> TRUE, sitemap_locs |-> <<>>, url_locs |-> locs]

\* what reader.load_data([url]) gives: a failure, or the page's Documents
FailedPage == [ok |-> FALSE, texts |-> <<>>]
Page(texts) == [ok |-> TRUE, texts |-> texts]

FetchSitemap(web, url) ==
    IF url \in DOMAIN web.sitemaps THEN web.sitemaps[url] ELSE FailedSitemap
FetchPage(web, url) ==
    IF url \in DOMAIN web.pages THEN web.pages[url] ELSE FailedPage

\* parse_sitemap(sitemap_url): ParseSitemap gives the call's outcome,
\* ChildUrls the loop over the child sitemaps of an index
RECURSIVE ParseSitemap(_, _)
RECURSIVE ChildUrls(_, _)
ChildUrls(web, sitemap_locs) ==
    IF sitemap_locs = <<>> THEN <<>>
    ELSE LET child_url == sitemap_locs[1]
             child == IF child_url # None THEN ParseSitemap(web, child_url)
                      ELSE [raised |-> FALSE, urls |-> <<>>]
         IN  (IF child.raised THEN <<>> ELSE child.urls)
             \o ChildUrls(web, Tail(sitemap_locs))

ParseSitemap(web, sitemap_url) ==
    LET response == FetchSitemap(web, sitemap_url)
    IN  IF ~response.ok THEN [raised |-> TRUE, urls |-> <<>>]
        ELSE LET urls == IF response.sitemap_locs # <<>>
                         THEN ChildUrls(web, response.sitemap_locs)
                         ELSE NonEmptyLocs(response.url_locs)
             IN  [raised |-> FALSE, urls |-> FilterDocs(urls)]

\* load_docs_from_sitemap: doc.metadata['source'] = url and
\* doc.metadata['source_type'] = 'docs' on the Documents of one page
DocsMetadata(url) == [source |-> url, source_type |-> "docs"]

TaggedDocs(url, texts) ==
    [i \in 1..Len(texts) |->
        [text |-> texts[i], metadata |-> DocsMetadata(url)]]

\* the loop of load_docs_from_sitemap over the retained URLs; the trace
\* lists the page requests and the sleeps in the order they happen
RECURSIVE LoadPages(_, _)
LoadPages(web, urls) ==
    IF urls = <<>> THEN [documents |-> <<>>, trace |-> <<>>]
    ELSE LET url == urls[1]
             page == FetchPage(web, url)
             rest == LoadPages(web, Tail(urls))
         IN  IF page.ok
             THEN [documents |-> TaggedDocs(url, page.texts) \o rest.documents,
                   trace |-> <<[op |-> "request", url |-> url],
                               [op |-> "sleep", url |-> url]>> \o rest.trace]
             ELSE [documents |-> rest.documents,
                   trace |-> <<[op |-> "request", url |-> url]>> \o rest.trace]

\* a loader that gives up when one page of the batch fails
LoadDocsFromSitemap_AllOrNothing(web, sitemap_url) ==
    LET parsed == ParseSitemap(web, sitemap_url)
        loaded == LoadPages(web, parsed.urls)
    IN  IF \/ parsed.raised
           \/ \E i \in 1..Len(parsed.urls) : ~FetchPage(web, parsed.urls[i]).ok
        THEN [kind |-> "raise", documents |-> <<>>, trace |-> <<>>]
        ELSE [kind |-> "return", documents |-> loaded.documents,
              trace |-> loaded.trace]

\* load_docs_from_sitemap(sitemap_url): the exception of the top-level
\* parse_sitemap call leaves the function
LoadDocsFromSitemap(web, sitemap_url) ==
    LET parsed == ParseSitemap(web, sitemap_url)
        loaded == LoadPages(web, parsed.urls)
    IN  IF parsed.raised
        THEN [kind |-> "raise", documents |-> <<>>, trace |-> <<>>]
        ELSE [kind |-> "return", documents |-> loaded.documents,
              trace |-> loaded.trace]

\* the webs of the model: the top sitemap is a urlset or an index of two
\* child sitemaps; every fetch can fail
TopSitemaps ==
    {FailedSitemap,
     UrlSet(<<PageA, BlogPage, PageB>>),
     SitemapIndex(<<ChildSitemap1, ChildSitemap2>>),
     SitemapIndex(<<ChildSitemap1, None, ChildSitemap2>>)}
Child1Sitemaps == {FailedSitemap, UrlSet(<<PageA, BlogPage>>)}
Child2Sitemaps == {FailedSitemap, UrlSet(<<PageB, PageC>>), UrlSet(<<None, PageB, PageA>>)}
PagesA == {FailedPage, Page(<<Text(50), Text(SNIPPET_LIMIT)>>)}
PagesB == {FailedPage, Page(<<Text(SNIPPET_LIMIT - 1)>>)}
PagesC == {FailedPage, Page(<<Text(1)>>)}

WebOf(top, c1, c2, a, b, c) ==
    [sitemaps |-> (SITEMAP_URL :> top) @@ (ChildSitemap1 :> c1)
                  @@ (ChildSitemap2 :> c2),
     pages |-> (PageA :> a) @@ (PageB :> b) @@ (PageC :> c)
               @@ (BlogPage :> Page(<<Text(2)>>))]

Webs ==
    {WebOf(top, c1, c2, a, b, c) :
        top \in TopSitemaps, c1 \in Child1Sitemaps, c2 \in Child2Sitemaps,
        a \in PagesA, b \in PagesB, c \in PagesC}

NoWeb == [sitemaps |-> EmptyMap, pages |-> EmptyMap]
NoLoad == [kind |-> "none", documents |-> <<>>, trace |-> <<>>]

VARIABLES
    ld_web,   \* the web the last load_docs_from_sitemap call ran against
    ld_ret    \* what that call returned or raised

loader_vars == <<ld_web, ld_ret>>

LoaderInit ==
    /\ ld_web = NoWeb
    /\ ld_ret = NoLoad

\* a call load_docs_from_sitemap(SITEMAP_URL)
LoadDocs(web) ==
    /\ ld_web' = web
    /\ ld_ret' = LoadDocsFromSitemap(web, SITEMAP_URL)

(***************************************************************************)
(* The repository loader.                                                  *)
(***************************************************************************)
INCLUDE_EXTENSIONS ==
    {".py", ".ts", ".tsx", ".js", ".jsx",
     ".md", ".rst", ".txt",
     ".json", ".yaml", ".yml", ".toml",
     ".html", ".css", ".scss",
     ".sql", ".sh", ".bash",
     ".go", ".rs", ".java", ".kt"}

EXCLUDE_DIRS ==
    {"node_modules", "vendor", "dist", "build",
     ".git", ".github", "__pycache__", ".pytest_cache",
     "venv", ".venv", "env", ".env",
     "coverage", ".coverage", "htmlcov"}

MAX_FILE_SIZE == 100 * 1024

\* str.lower() on the fragments of the model's file names
LowerFrag(frag) ==
    CASE frag = "PY" -> "py"
      [] frag = "Md" -> "md"
      [] frag = "PNG" -> "png"
      [] frag = "README" -> "readme"
      [] frag = "Main" -> "main"
      [] OTHER -> frag

Lower(frags) == [i \in 1..Len(frags) |-> LowerFrag(frags[i])]

\* file_path.split(os.sep): the components between the "/" fragments
RECURSIVE SplitSep(_)
SplitSep(path) ==
    IF \A i \in 1..Len(path) : path[i] # "/" THEN <<path>>
    ELSE LET k == CHOOSE i \in 1..Len(path) :
                    path[i] = "/" /\ \A j \in 1..(i - 1) : path[j] # "/"
         IN  <<SubSeq(path, 1, k - 1)>> \o SplitSep(SubSeq(path, k + 1, Len(path)))

\* os.path.splitext(file_path)[1]: the last component from its last dot on,
\* leading dots of the component not counting
SplitExt(path) ==
    LET parts == SplitSep(path)
        name == parts[Len(parts)]
        dots == {i \in 1..Len(name) : name[i] = "."}
        last == CHOOSE i \in dots : \A j \in dots : j <= i
    IN  IF dots # {} /\ \E j \in 1..(last - 1) : name[j] # "."
        THEN SubSeq(name, last, Len(name))
        ELSE <<>>

\* os.path.exists and os.path.getsize of the path: no such file, a file
\* of a size, or a file whose size cannot be read (OSError)
NoFile == [exists |-> FALSE, size |-> None]
FileOfSize(n) == [exists |-> TRUE, size |-> Some(n)]
UnreadableFile == [exists |-> TRUE, size |-> None]

\* an inclusion test that rejects a file of exactly the ceiling
should_include_file_Strict(file_path, stat) ==
    IF Concat(Lower(SplitExt(file_path))) \notin INCLUDE_EXTENSIONS THEN FALSE
    ELSE IF stat.exists /\ stat.size = None THEN FALSE
    ELSE IF stat.exists /\ stat.size[1] >= MAX_FILE_SIZE THEN FALSE
    ELSE IF \E i \in 1..Len(SplitSep(file_path)) :
                Concat(SplitSep(file_path)[i]) \in EXCLUDE_DIRS
    THEN FALSE
    ELSE TRUE

should_include_file(file_path, stat) ==
    IF Concat(Lower(SplitExt(file_path))) \notin INCLUDE_EXTENSIONS THEN FALSE
    ELSE IF stat.exists /\ stat.size = None THEN FALSE
    ELSE IF stat.exists /\ stat.size[1] > MAX_FILE_SIZE THEN FALSE
    ELSE IF \E i \in 1..Len(SplitSep(file_path)) :
                Concat(SplitSep(file_path)[i]) \in EXCLUDE_DIRS
    THEN FALSE
    ELSE TRUE

\* repo_url.rstrip('/')
RECURSIVE RStripSlash(_)
RStripSlash(url) ==
    IF url # <<>> /\ url[Len(url)] = "/"
    THEN RStripSlash(SubSeq(url, 1, Len(url) - 1))
    ELSE url

\* repo_name = repo_url.rstrip('/').split('/')[-1]
RepoName(repo_url) ==
    LET parts == SplitSep(RStripSlash(repo_url)) IN parts[Len(parts)]

\* os.path.relpath(file_path, repo_dir) for a file below repo_dir
RelPath(file_path, repo_dir) ==
    SubSeq(file_path, Len(repo_dir) + 2, Len(file_path))

\* load_github_repo: the reader's 'file_path' stays, 'source',
\* 'source_type' and 'repo_url' are added
CodeMetadata(repo_url, repo_dir, file_path) ==
    [file_path |-> file_path,
     source |-> RepoName(repo_url) \o <<"/">> \o RelPath(file_path, repo_dir),
     source_type |-> "code",
     repo_url |-> repo_url]

REPO_URL == <<"http", "s:", "/", "/", "github", ".", "com", "/", "org", "/", "repo", "/">>
REPO_DIR == <<"/", "tmp", "/", "repo_x">>

\* the files of the cloned repository: path below the clone, size, text
RepoFiles ==
    <<[path |-> <<"src", "/", "app", ".", "py">>, size |-> 201,
       text |-> Text(SNIPPET_LIMIT + 1)],
      [path |-> <<"node_modules", "/", "x", ".", "js">>, size |-> 10,
       text |-> Text(10)],
      [path |-> <<"logo", ".", "png">>, size |-> 3000, text |-> Text(3)],
      [path |-> <<"README", ".", "md">>, size |-> MaxTextLen,
       text |-> Text(MaxTextLen)],
      [path |-> <<"data", ".", "json">>, size |-> MAX_FILE_SIZE + 1,
       text |-> Text(4)]>>

\* os.walk with dirs[:] pruned: the files no directory of which, below the
\* clone, is an excluded one
Walked(files) ==
    SelectSeq(files,
        LAMBDA f : LET parts == SplitSep(f.path)
                   IN  \A i \in 1..(Len(parts) - 1) :
                        Concat(parts[i]) \notin EXCLUDE_DIRS)

\* the tagged Documents of the files that pass the filter; the directory
\* reader gives one Document per file, with the file's path as 'file_path'
RECURSIVE LoadFiles(_, _, _)
LoadFiles(repo_url, repo_dir, files) ==
    IF files = <<>> THEN <<>>
    ELSE LET file_path == repo_dir \o <<"/">> \o files[1].path
         IN  (IF should_include_file(file_path, FileOfSize(files[1].size))
              THEN <<[text |-> files[1].text,
                      metadata |-> CodeMetadata(repo_url, repo_dir, file_path)]>>
              ELSE <<>>)
             \o LoadFiles(repo_url, repo_dir, Tail(files))

\* load_github_repo(repo_url): the clone raises, or the files are walked,
\* filtered, read and tagged
LoadGithubRepo(repo_url, repo_dir, repo) ==
    IF ~repo.clone_ok THEN [kind |-> "raise", documents |-> <<>>]
    ELSE [kind |-> "return",
          documents |-> LoadFiles(repo_url, repo_dir, Walked(repo.files))]

(***************************************************************************)
(* The stored chunks and query().                                          *)
(***************************************************************************)
ELLIPSIS == <<".", ".", ".">>

\* similarity_top_k of the query engine
TOP_K == 5

\* metadata.get(key, default)
MetadataGet(metadata, key, default) ==
    IF key \in DOMAIN metadata THEN metadata[key] ELSE default

\* a snippet cut that also marks a text of exactly the limit
TextSnippet_AtLimit(text) ==
    IF Len(text) >= SNIPPET_LIMIT
    THEN SubSeq(text, 1, Min2(SNIPPET_LIMIT, Len(text))) \o ELLIPSIS
    ELSE text

\* text_snippet=node.node.text[:200] + "..." if len(node.node.text) > 200
\*              else node.node.text
TextSnippet(text) ==
    IF Len(text) > SNIPPET_LIMIT
    THEN SubSeq(text, 1, Min2(SNIPPET_LIMIT, Len(text))) \o ELLIPSIS
    ELSE text

\* score=node.score if hasattr(node, 'score') and node.score is not None
\*       else 0.0
NodeScore(node) == IF node.score # None THEN node.score[1] ELSE 0

\* the Source built for one retrieved node
SourceOf(node) ==
    [text_snippet |-> TextSnippet(node.text),
     source_path |-> MetadataGet(node.metadata, "source_path",
                        MetadataGet(node.metadata, "file_path", <<"Unknown">>)),
     source_type |-> MetadataGet(node.metadata, "source_type", "docs"),
     score |-> NodeScore(node)]

\* an extraction that lists the sources in the opposite order
ExtractSources_Reversed(nodes) ==
    [i \in 1..Len(nodes) |-> SourceOf(nodes[Len(nodes) + 1 - i])]

\* the loop over response.source_nodes
ExtractSources(nodes) == [i \in 1..Len(nodes) |-> SourceOf(nodes[i])]

\* the QueryResult query() returns for the engine's response
QueryResultOf(response) ==
    [answer |-> response.answer,
     sources |-> IF response.has_source_nodes /\ response.source_nodes # <<>>
                 THEN ExtractSources(response.source_nodes)
                 ELSE <<>>]

\* the Documents of one loader run on a site and a repository that answer
DocsBatch ==
    LoadDocsFromSitemap(
        WebOf(SitemapIndex(<<ChildSitemap1, ChildSitemap2>>),
              UrlSet(<<PageA, BlogPage>>), UrlSet(<<PageB, PageC>>),
              Page(<<Text(50), Text(SNIPPET_LIMIT)>>),
              Page(<<Text(SNIPPET_LIMIT - 1)>>), Page(<<Text(1)>>)),
        SITEMAP_URL).documents
CodeBatch == LoadGithubRepo(REPO_URL, REPO_DIR, [clone_ok |-> TRUE, files |-> RepoFiles]).documents
Batches == {DocsBatch, CodeBatch, DocsBatch \o CodeBatch}

VARIABLES
    kb_index,   \* the chunks stored in the collection, in insertion order
    q_ret       \* the last call of query(): the engine's response and the outcome

query_vars == <<kb_index, q_ret>>

NoResponseObj == [has_source_nodes |-> FALSE, source_nodes |-> <<>>, answer |-> ""]
NoQuery ==
    [kind |-> "none", question |-> "", response |-> NoResponseObj,
     result |-> NoResult, exc |-> NoError]

QueryInit ==
    /\ kb_index = <<>>
    /\ q_ret = NoQuery

\* create_index_from_documents(documents): every Document is stored as a
\* chunk that keeps the Document's text and metadata
CreateIndexFromDocuments(documents) ==
    /\ documents # <<>>
    /\ \A i \in 1..Len(documents), j \in 1..Len(kb_index) :
        kb_index[j] # documents[i]
    /\ kb_index' = kb_index \o documents
    /\ UNCHANGED q_ret

\* client.delete_collection("knowledge_base")
DeleteCollection ==
    /\ kb_index # <<>>
    /\ kb_index' = <<>>
    /\ UNCHANGED q_ret

\* the k stored chunks the engine hands back as NodeWithScore, from either
\* end of the collection; the backend may report no score for the last one
Retrieved(k, backward, unscored) ==
    [j \in 1..k |->
        LET chunk == kb_index[IF backward THEN Len(kb_index) + 1 - j ELSE j]
        IN  [text |-> chunk.text, metadata |-> chunk.metadata,
             score |-> IF unscored /\ j = k THEN None ELSE Some(TOP_K - j)]]

\* query(question): configure_llm, create_query_engine or
\* query_engine.query(question) raise, or the engine gives a response whose
\* source nodes are turned into Sources
Query(question) ==
    /\ \/ \E e \in QueryErrors :
            q_ret' = [kind |-> "raise", question |-> question,
                      response |-> NoResponseObj, result |-> NoResult,
                      exc |-> e]
       \/ \E k \in 0..Min2(TOP_K, Len(kb_index)), backward \in BOOLEAN,
             unscored \in BOOLEAN, has \in BOOLEAN :
            LET response ==
                    [has_source_nodes |-> has,
                     source_nodes |-> IF has THEN Retrieved(k, backward, unscored)
                                      ELSE <<>>,
                     answer |-> "answer to " \o question]
            IN  q_ret' = [kind |-> "return", question |-> question,
                          response |-> response,
                          result |-> QueryResultOf(response), exc |-> NoError]
    /\ UNCHANGED kb_index

(***************************************************************************)
(* Calls of the two pure functions.                                        *)
(***************************************************************************)
\* most sources of a QueryResult handed to format_response
MaxSources == 4

WebCodeSource ==
    [text_snippet |-> "repo", source_path |-> <<"http", "s://github.com/org/repo">>,
     source_type |-> "code", score |-> 7]
UnknownSource ==
    [text_snippet |-> "page", source_path |-> <<"Unknown">>,
     source_type |-> "docs", score |-> 0]
SourceValues == {DocsSource, CodeSource, WebCodeSource, UnknownSource}

RECURSIVE SourceSeqs(_)
SourceSeqs(n) ==
    IF n = 0 THEN {<<>>}
    ELSE SourceSeqs(n - 1) \cup
         {Append(s, x) : s \in {t \in SourceSeqs(n - 1) : Len(t) = n - 1},
                         x \in SourceValues}

FormatInputs ==
    {[answer |-> "The answer", sources |-> s] : s \in SourceSeqs(MaxSources)}

\* the paths and the file states should_include_file is called with
FilterPaths ==
    {<<"app", ".", "py">>, <<"README", ".", "md">>, <<"Main", ".", "PY">>,
     <<"logo", ".", "png">>, <<"photo", ".", "jpg">>, <<"Makefile">>,
     <<".", "bash">>, <<"a", ".", "tar", ".", "gz">>, <<"env", ".", "py">>,
     <<"node_modules", "/", "x", ".", "js">>, <<"src", "/", "x", ".", "js">>,
     <<"src", "/", "build", "/", "gen", ".", "py">>,
     REPO_DIR \o <<"/", "src", "/", "app", ".", "py">>,
     REPO_DIR \o <<"/", ".", "git", "/", "hooks", "/", "run", ".", "sh">>}
FilterStats ==
    {NoFile, UnreadableFile}
    \cup {FileOfSize(n) : n \in {0, MAX_FILE_SIZE - 1, MAX_FILE_SIZE,
                                 MAX_FILE_SIZE + 1, 2 * MAX_FILE_SIZE}}

VARIABLES
    fr_result,   \* the QueryResult format_response is called with
    fr_out,      \* the lines and the text of the call, None before it
    sf_path,     \* the path should_include_file is called with
    sf_stat,     \* the state of the file at that path
    sf_out       \* the answer of the call, None before it

pure_vars == <<fr_result, fr_out, sf_path, sf_stat, sf_out>>

\* no call is prepared
PureInit ==
    /\ fr_result = NoResult
    /\ fr_out = None
    /\ sf_path = <<>>
    /\ sf_stat = NoFile
    /\ sf_out = None

\* a call of format_response is prepared with any QueryResult
FormatInit ==
    /\ fr_result \in FormatInputs
    /\ fr_out = None
    /\ sf_path = <<>>
    /\ sf_stat = NoFile
    /\ sf_out = None

\* a call of should_include_file is prepared with any path and file state
FilterInit ==
    /\ fr_result = NoResult
    /\ fr_out = None
    /\ sf_path \in FilterPaths
    /\ sf_stat \in FilterStats
    /\ sf_out = None

\* the call format_response(fr_result)
FormatResponse ==
    /\ fr_out = None
    /\ fr_out' = Some([lines |-> ResponseLines(fr_result),
                       text |-> format_response(fr_result)])
    /\ UNCHANGED <<fr_result, sf_path, sf_stat, sf_out>>

\* the call should_include_file(sf_path)
ShouldIncludeFile ==
    /\ sf_out = None
    /\ sf_out' = Some(should_include_file(sf_path, sf_stat))
    /\ UNCHANGED <<fr_result, fr_out, sf_path, sf_stat>>

(***************************************************************************)
(* The re-index script (scripts/reindex.py).                               *)
(***************************************************************************)
\* the command lines: --docs-only and --code-only, each given or not
ReindexArgs == [docs_only : BOOLEAN, code_only : BOOLEAN]

\* the docs sites a run meets: the sitemap cannot be fetched, every page
\* fails, one page of two loads, every page loads
ReindexWebs ==
    {WebOf(FailedSitemap, FailedSitemap, FailedSitemap,
           FailedPage, FailedPage, FailedPage),
     WebOf(UrlSet(<<PageA, BlogPage, PageB>>), FailedSitemap, FailedSitemap,
           FailedPage, FailedPage, FailedPage),
     WebOf(UrlSet(<<PageA, BlogPage, PageB>>), FailedSitemap, FailedSitemap,
           FailedPage, Page(<<Text(SNIPPET_LIMIT - 1)>>), FailedPage),
     WebOf(UrlSet(<<PageA, BlogPage, PageB>>), FailedSitemap, FailedSitemap,
           Page(<<Text(50), Text(SNIPPET_LIMIT)>>),
           Page(<<Text(SNIPPET_LIMIT - 1)>>), FailedPage)}

\* the repositories a run meets: the clone fails, no file passes the
\* filter, some files pass
ReindexRepos ==
    {[clone_ok |-> FALSE, files |-> <<>>],
     [clone_ok |-> TRUE, files |-> SubSeq(RepoFiles, 2, 3)],
     [clone_ok |-> TRUE, files |-> RepoFiles]}

VARIABLES
    ri      \* the run of main(): its arguments, its position, the documents
            \* list, what each loader did, the calls of
            \* create_index_from_documents, the exit status

reindex_vars == <<ri>>

NoRun ==
    [pc |-> "idle", docs_only |-> FALSE, code_only |-> FALSE,
     previous |-> <<>>, documents |-> <<>>,
     docs_kind |-> "skipped", docs_loaded |-> <<>>,
     code_kind |-> "skipped", code_loaded |-> <<>>,
     trace |-> <<>>, builds |-> <<>>, exit_code |-> None]

ReindexInit == ri = NoRun

\* lines 18-27: the arguments are parsed, documents = []
ReindexStart(args) ==
    /\ ri.pc \in {"idle", "exit"}
    /\ ri' = [NoRun EXCEPT !.pc = "delete", !.docs_only = args.docs_only,
                           !.code_only = args.code_only, !.previous = kb_index]
    /\ UNCHANGED query_vars

\* a run that keeps the existing collection
ReindexDelete_Keep ==
    /\ ri.pc = "delete"
    /\ UNCHANGED query_vars
    /\ ri' = [ri EXCEPT !.pc = "docs", !.trace = Append(@, "delete")]

\* lines 29-33: client.delete_collection("knowledge_base"); the ValueError
\* of a collection that does not exist is passed over
ReindexDelete ==
    /\ ri.pc = "delete"
    /\ IF kb_index # <<>> THEN DeleteCollection ELSE UNCHANGED query_vars
    /\ ri' = [ri EXCEPT !.pc = "docs", !.trace = Append(@, "delete")]

\* a run that goes straight to the final check when the docs loader raises
ReindexLoadDocs_Abort(web) ==
    /\ ri.pc = "docs"
    /\ IF ri.code_only
       THEN ri' = [ri EXCEPT !.pc = "code"]
       ELSE LET docs == LoadDocsFromSitemap(web, SITEMAP_URL)
            IN  ri' = [ri EXCEPT !.pc = IF docs.kind = "raise" THEN "check"
                                        ELSE "code",
                                 !.docs_kind = docs.kind,
                                 !.docs_loaded = docs.documents,
                                 !.documents = @ \o docs.documents,
                                 !.trace = Append(@, "load_docs")]
    /\ UNCHANGED query_vars

\* lines 36-43: unless --code-only, load_docs_from_sitemap runs; what it
\* returns extends documents, what it raises is printed
ReindexLoadDocs(web) ==
    /\ ri.pc = "docs"
    /\ IF ri.code_only
       THEN ri' = [ri EXCEPT !.pc = "code"]
       ELSE LET docs == LoadDocsFromSitemap(web, SITEMAP_URL)
            IN  ri' = [ri EXCEPT !.pc = "code",
                                 !.docs_kind = docs.kind,
                                 !.docs_loaded = docs.documents,
                                 !.documents = @ \o docs.documents,
                                 !.trace = Append(@, "load_docs")]
    /\ UNCHANGED query_vars

\* lines 46-53: unless --docs-only, load_github_repo runs; what it returns
\* extends documents, what it raises is printed
ReindexLoadCode(repo) ==
    /\ ri.pc = "code"
    /\ IF ri.docs_only
       THEN ri' = [ri EXCEPT !.pc = "check"]
       ELSE LET code_docs == LoadGithubRepo(REPO_URL, REPO_DIR, repo)
            IN  ri' = [ri EXCEPT !.pc = "check",
                                 !.code_kind = code_docs.kind,
                                 !.code_loaded = code_docs.documents,
                                 !.documents = @ \o code_docs.documents,
                                 !.trace = Append(@, "load_code")]
    /\ UNCHANGED query_vars

\* lines 55-57: if not documents: sys.exit(1)
ReindexExit ==
    /\ ri.pc = "check"
    /\ ri.documents = <<>>
    /\ ri' = [ri EXCEPT !.pc = "exit", !.exit_code = Some(1),
                        !.trace = Append(@, "exit")]
    /\ UNCHANGED query_vars

\* lines 60-62: index = create_index_from_documents(documents) returns
ReindexBuild ==
    /\ ri.pc = "check"
    /\ ri.documents # <<>>
    /\ CreateIndexFromDocuments(ri.documents)
    /\ ri' = [ri EXCEPT !.pc = "exit", !.exit_code = Some(0),
                        !.builds = Append(@, ri.documents),
                        !.trace = Append(@, "build")]

\* line 60: create_index_from_documents(documents) raises after it stored
\* the first n documents; the traceback ends the process with status 1
ReindexBuildRaises ==
    /\ ri.pc = "check"
    /\ ri.documents # <<>>
    /\ \E n \in 0..(Len(ri.documents) - 1) :
            kb_index' = kb_index \o SubSeq(ri.documents, 1, n)
    /\ UNCHANGED q_ret
    /\ ri' = [ri EXCEPT !.pc = "exit", !.exit_code = Some(1),
                        !.builds = Append(@, ri.documents),
                        !.trace = Append(@, "build")]

(***************************************************************************)
(* The settings (src/config/settings.py).                                  *)
(***************************************************************************)
\* the fields of the Settings dataclass with the defaults get_settings
\* hands to os.getenv
SettingsDefaults ==
    [SLACK_BOT_TOKEN |-> "", SLACK_APP_TOKEN |-> "", OPENAI_API_KEY |-> "",
     OPENAI_API_BASE |-> "https://api.openai.com/v1",
     LLM_MODEL |-> "gpt-4o-mini", DOCS_SITEMAP_URL |-> "",
     GITHUB_REPO_URL |-> "", CHROMA_PERSIST_DIR |-> "./data/chroma_db"]

\* the environment variables the operator sets or unsets, and the value
\* each is set to
EnvValues ==
    [LLM_MODEL |-> "gpt-4o", OPENAI_API_BASE |-> "http://proxy/v1",
     CHROMA_PERSIST_DIR |-> "/var/chroma", LLM_PROVIDER |-> "ollama",
     OLLAMA_MODEL |-> "mistral"]
EnvNames == DOMAIN EnvValues

VARIABLES
    environ,    \* os.environ: variable name -> optional value
    st_ret      \* the last get_settings call: the environment it ran in
                \* and the object it returned

settings_vars == <<environ, st_ret>>

NoSettings == [called |-> FALSE, env |-> EmptyMap, settings |-> EmptyMap]

SettingsInit ==
    /\ environ = [n \in EnvNames |-> None]
    /\ st_ret = NoSettings

\* os.getenv(name, default)
Getenv(env, name, default) ==
    IF name \in DOMAIN env /\ env[name] # None THEN env[name][1] ELSE default

\* get_settings(): a new Settings object, every field read from the
\* environment of the moment
GetSettings ==
    /\ st_ret' = [called |-> TRUE, env |-> environ,
                  settings |-> [f \in DOMAIN SettingsDefaults |->
                                  Getenv(environ, f, SettingsDefaults[f])]]
    /\ UNCHANGED environ

\* patch.dict("os.environ", {name: value}) and its undoing
SetEnv(name, value) ==
    /\ environ[name] # value
    /\ environ' = [environ EXCEPT ![name] = value]
    /\ UNCHANGED st_ret

(***************************************************************************)
(* get_llm called by concurrent queries.  Every query worker runs          *)
(* configure_llm(), that is get_llm(system_prompt=SYSTEM_PROMPT); nothing  *)
(* orders the statements of two calls, so a call is three steps: the       *)
(* lookup, the construction, the write.                                    *)
(***************************************************************************)
\* queries that call get_llm in one behaviour
MaxQueries == 3

\* the prompt of query_engine.py, by its first words
SYSTEM_PROMPT == "You are a helpful documentation assistant."

\* the backend kinds configured while queries run
QueryProviders == {"openai", "ollama", "invalid_provider"}

\* what the probe of a running query gets: no connection, or a listing
\* that holds the configured model
QueryResponses ==
    {[net |-> "refused", json |-> "none", field |-> "absent", models |-> <<>>],
     [net |-> "ok", json |-> "object", field |-> "list",
      models |-> <<[obj |-> TRUE, name |-> Some("llama3.2:latest")]>>]}

VARIABLES
    callers     \* query -> its get_llm call: position, the provider and key
                \* it computed, the handle it built, what it returned or
                \* raised, the cache entry it saw on a hit

conc_vars == <<callers>>

NoCaller ==
    [pc |-> "idle", provider |-> "", key |-> "", llm |-> NoHandle,
     outcome |-> "none", handle |-> NoHandle, hit |-> FALSE]

ConcInit == callers = [t \in 1..MaxQueries |-> NoCaller]

\* lines 36-42: settings are read, the key is computed and looked up; on a
\* hit the cached handle is returned
GetLLMLookup(t) ==
    LET provider == LLM_PROVIDER
        cache_key == CacheKey(provider, Some(SYSTEM_PROMPT))
    IN  /\ callers[t].pc = "idle"
        /\ callers' =
            [callers EXCEPT ![t] =
                IF cache_key \in DOMAIN llm_cache
                THEN [NoCaller EXCEPT !.pc = "done", !.provider = provider,
                                      !.key = cache_key, !.outcome = "ok",
                                      !.handle = llm_cache[cache_key],
                                      !.hit = TRUE]
                ELSE [NoCaller EXCEPT !.pc = "miss", !.provider = provider,
                                      !.key = cache_key]]
        /\ UNCHANGED provider_vars

\* lines 44-52, 56-102, 105-108: after a miss the handle is constructed, for
\* the local backend behind its health check, or the call raises
GetLLMConstruct(t, resp) ==
    LET c == callers[t]
        check == HealthCheck(resp)
    IN  /\ c.pc = "miss"
        /\ IF c.provider = "openai"
           THEN /\ callers' = [callers EXCEPT ![t].pc = "built",
                                  ![t].llm = NewOpenAI(next_id, Some(SYSTEM_PROMPT))]
                /\ ctor_count' = (c.key :> CountOf(c.key) + 1) @@ ctor_count
                /\ next_id' = next_id + 1
           ELSE IF c.provider = "ollama" /\ check.outcome = "ok"
           THEN /\ callers' = [callers EXCEPT ![t].pc = "built",
                                  ![t].llm = NewOllama(next_id, Some(SYSTEM_PROMPT))]
                /\ ctor_count' = (c.key :> CountOf(c.key) + 1) @@ ctor_count
                /\ next_id' = next_id + 1
           ELSE /\ callers' = [callers EXCEPT ![t].pc = "done",
                                  ![t].outcome = IF c.provider = "ollama"
                                                 THEN check.outcome
                                                 ELSE "ValueError"]
                /\ UNCHANGED <<ctor_count, next_id>>
        /\ UNCHANGED <<LLM_PROVIDER, llm_cache, ret>>

\* a write that leaves an entry written in the meantime in place
GetLLMStore_KeepFirst(t) ==
    LET c == callers[t]
    IN  /\ c.pc = "built"
        /\ llm_cache' = llm_cache @@ (c.key :> c.llm)
        /\ callers' = [callers EXCEPT ![t].pc = "done", ![t].outcome = "ok",
                                      ![t].handle = c.llm]
        /\ UNCHANGED <<LLM_PROVIDER, ctor_count, next_id, ret>>

\* a write that drops the entries of the other keys
GetLLMStore_Evicting(t) ==
    LET c == callers[t]
    IN  /\ c.pc = "built"
        /\ llm_cache' = (c.key :> c.llm)
        /\ callers' = [callers EXCEPT ![t].pc = "done", ![t].outcome = "ok",
                                      ![t].handle = c.llm]
        /\ UNCHANGED <<LLM_PROVIDER, ctor_count, next_id, ret>>

\* lines 53-54, 103-104: _llm_cache[cache_key] = llm; return llm
GetLLMStore(t) ==
    LET c == callers[t]
    IN  /\ c.pc = "built"
        /\ llm_cache' = (c.key :> c.llm) @@ llm_cache
        /\ callers' = [callers EXCEPT ![t].pc = "done", ![t].outcome = "ok",
                                      ![t].handle = c.llm]
        /\ UNCHANGED <<LLM_PROVIDER, ctor_count, next_id, ret>>

(***************************************************************************)
(* Specifications.                                                         *)
(***************************************************************************)
\* the variables of the operator's side and of the concurrent callers: the
\* re-index run, the settings, the get_llm calls of running queries
ops_vars == <<reindex_vars, settings_vars, conc_vars>>

OpsInit == ReindexInit /\ SettingsInit /\ ConcInit

\* the variables of the content pipeline: index and query, loader, the
\* calls of the pure functions, and the operator's side
pipeline_vars == <<query_vars, loader_vars, pure_vars, ops_vars>>

vars == <<provider_vars, retry_vars, bot_vars, pipeline_vars>>

Init ==
    ProviderInit /\ RetryInit /\ BotInit /\ QueryInit /\ LoaderInit /\ PureInit
    /\ OpsInit

\* the initial states with a call of format_response prepared
InitFormat ==
    ProviderInit /\ RetryInit /\ BotInit /\ QueryInit /\ LoaderInit /\ FormatInit
    /\ OpsInit

\* the initial states with a call of should_include_file prepared
InitFilter ==
    ProviderInit /\ RetryInit /\ BotInit /\ QueryInit /\ LoaderInit /\ FilterInit
    /\ OpsInit

\* the provider factory under calls, configuration changes and cache clears
Next ==
    \/ \E sp \in Prompts : GetLLM(sp) /\ UNCHANGED <<retry_vars, bot_vars, pipeline_vars>>
    \/ \E p \in Providers : SetProvider(p) /\ UNCHANGED <<retry_vars, bot_vars, pipeline_vars>>
    \/ ClearCache /\ UNCHANGED <<retry_vars, bot_vars, pipeline_vars>>

Spec == Init /\ [][Next]_vars

\* the retry wrapper under calls of query_with_retry
RetryNext ==
    \/ \E q \in Questions : RetryCall(q) /\ UNCHANGED <<provider_vars, bot_vars, pipeline_vars>>
    \/ RetryAttempt /\ UNCHANGED <<provider_vars, bot_vars, pipeline_vars>>
    \/ RetryWake /\ UNCHANGED <<provider_vars, bot_vars, pipeline_vars>>

SpecRetry == Init /\ [][RetryNext]_vars

\* the chat handlers and their workers
BotNext ==
    \/ \E e \in MentionEvents : HandleMention(e) /\ UNCHANGED <<provider_vars, retry_vars, pipeline_vars>>
    \/ \E e \in MessageEvents : HandleDm(e) /\ UNCHANGED <<provider_vars, retry_vars, pipeline_vars>>
    \/ \E ts \in DOMAIN workers : WorkerQuery(ts) /\ UNCHANGED <<provider_vars, retry_vars, pipeline_vars>>
    \/ \E ts \in DOMAIN workers : WorkerUpdate(ts) /\ UNCHANGED <<provider_vars, retry_vars, pipeline_vars>>
    \/ \E ts \in DOMAIN workers : WorkerReport(ts) /\ UNCHANGED <<provider_vars, retry_vars, pipeline_vars>>

SpecBot == Init /\ [][BotNext]_vars

\* a step of the thread started for placeholder ts
WorkerRun(ts) ==
    (WorkerQuery(ts) \/ WorkerUpdate(ts) \/ WorkerReport(ts))
        /\ UNCHANGED <<provider_vars, retry_vars, pipeline_vars>>

\* the collection under builds, deletions and queries
QueryNext ==
    \/ \E b \in Batches : CreateIndexFromDocuments(b)
            /\ UNCHANGED <<provider_vars, retry_vars, bot_vars, loader_vars, pure_vars, ops_vars>>
    \/ DeleteCollection
            /\ UNCHANGED <<provider_vars, retry_vars, bot_vars, loader_vars, pure_vars, ops_vars>>
    \/ \E q \in Questions : Query(q)
            /\ UNCHANGED <<provider_vars, retry_vars, bot_vars, loader_vars, pure_vars, ops_vars>>

SpecQuery == Init /\ [][QueryNext]_vars

\* the docs-site loader called against any web
LoaderNext ==
    \E w \in Webs : LoadDocs(w)
        /\ UNCHANGED <<provider_vars, retry_vars, bot_vars, query_vars, pure_vars, ops_vars>>

SpecLoader == Init /\ [][LoaderNext]_vars

\* format_response applied to any QueryResult
FormatNext ==
    FormatResponse
        /\ UNCHANGED <<provider_vars, retry_vars, bot_vars, query_vars, loader_vars, ops_vars>>

SpecFormat == InitFormat /\ [][FormatNext]_vars

\* should_include_file applied to any path and file state
FilterNext ==
    ShouldIncludeFile
        /\ UNCHANGED <<provider_vars, retry_vars, bot_vars, query_vars, loader_vars, ops_vars>>

SpecFilter == InitFilter /\ [][FilterNext]_vars

\* the re-index script run again and again against any site and repository
ReindexNext ==
    \/ \E args \in ReindexArgs : ReindexStart(args)
            /\ UNCHANGED <<provider_vars, retry_vars, bot_vars, loader_vars, pure_vars, settings_vars, conc_vars>>
    \/ ReindexDelete
            /\ UNCHANGED <<provider_vars, retry_vars, bot_vars, loader_vars, pure_vars, settings_vars, conc_vars>>
    \/ \E web \in ReindexWebs : ReindexLoadDocs(web)
            /\ UNCHANGED <<provider_vars, retry_vars, bot_vars, loader_vars, pure_vars, settings_vars, conc_vars>>
    \/ \E repo \in ReindexRepos : ReindexLoadCode(repo)
            /\ UNCHANGED <<provider_vars, retry_vars, bot_vars, loader_vars, pure_vars, settings_vars, conc_vars>>
    \/ ReindexExit
            /\ UNCHANGED <<provider_vars, retry_vars, bot_vars, loader_vars, pure_vars, settings_vars, conc_vars>>
    \/ ReindexBuild
            /\ UNCHANGED <<provider_vars, retry_vars, bot_vars, loader_vars, pure_vars, settings_vars, conc_vars>>
    \/ ReindexBuildRaises
            /\ UNCHANGED <<provider_vars, retry_vars, bot_vars, loader_vars, pure_vars, settings_vars, conc_vars>>

SpecReindex == Init /\ [][ReindexNext]_vars

\* get_settings called under a changing environment
SettingsNext ==
    \/ GetSettings
            /\ UNCHANGED <<provider_vars, retry_vars, bot_vars, query_vars, loader_vars, pure_vars, reindex_vars, conc_vars>>
    \/ \E n \in EnvNames : \E v \in {None, Some(EnvValues[n])} : SetEnv(n, v)
            /\ UNCHANGED <<provider_vars, retry_vars, bot_vars, query_vars, loader_vars, pure_vars, reindex_vars, conc_vars>>

SpecSettings == Init /\ [][SettingsNext]_vars

\* get_llm under concurrent queries, configuration changes and cache clears
ConcNext ==
    \/ \E t \in 1..MaxQueries : GetLLMLookup(t)
            /\ UNCHANGED <<retry_vars, bot_vars, query_vars, loader_vars, pure_vars, reindex_vars, settings_vars>>
    \/ \E t \in 1..MaxQueries, resp \in QueryResponses : GetLLMConstruct(t, resp)
            /\ UNCHANGED <<retry_vars, bot_vars, query_vars, loader_vars, pure_vars, reindex_vars, settings_vars>>
    \/ \E t \in 1..MaxQueries : GetLLMStore(t)
            /\ UNCHANGED <<retry_vars, bot_vars, query_vars, loader_vars, pure_vars, reindex_vars, settings_vars>>
    \/ \E p \in QueryProviders : SetProvider(p)
            /\ UNCHANGED <<retry_vars, bot_vars, pipeline_vars>>
    \/ ClearCache
            /\ UNCHANGED <<retry_vars, bot_vars, pipeline_vars>>

SpecConc == Init /\ [][ConcNext]_vars

TypeOK ==
    /\ LLM_PROVIDER \in Providers
    /\ next_id \in 1..(MaxHandles + 1)
    /\ \A k \in DOMAIN llm_cache : llm_cache[k].id \in 1..MaxHandles
    /\ rw_calls \in 0..STOP_AFTER_ATTEMPT
    /\ Len(slack_msgs) <= MaxMessages

(***************************************************************************)
(* Properties of the provider factory (specification Spec).                *)
(***************************************************************************)
\* a step that is the full clear of the cache
ClearStep == llm_cache # EmptyMap /\ llm_cache' = EmptyMap

\* a step in which a get_llm call completed with a new call record
CallStep == ret' # ret /\ ret'.outcome # "none"

\* C1: between two cache clears, every call with a key that was served
\* before returns the very instance stored for the key, entries are never
\* replaced, and the constructor has run exactly once for every stored key,
\* however many calls were made.
C1_SameInstanceBuiltOnce ==
    [][~ClearStep =>
        /\ \A k \in DOMAIN llm_cache :
            k \in DOMAIN llm_cache' /\ llm_cache'[k] = llm_cache[k]
        /\ \A k \in DOMAIN llm_cache' :
            k \in DOMAIN ctor_count' /\ ctor_count'[k] = 1
        /\ ret'.outcome = "ok" =>
            /\ ret'.key \in DOMAIN llm_cache'
            /\ ret'.handle = llm_cache'[ret'.key]
        /\ (CallStep /\ ret'.key \in DOMAIN llm_cache) =>
            /\ ret'.outcome = "ok"
            /\ ret'.handle = llm_cache[ret'.key]
            /\ ret'.built = 0
            /\ next_id' = next_id]_vars

\* a repeated call was served from the cache: same instance, built once
C1_Witness ==
    /\ ret.hit
    /\ ret.outcome = "ok"
    /\ ret.handle = llm_cache[ret.key]
    /\ ret.handle.system_prompt = ret.prompt
    /\ ctor_count[ret.key] = 1
    /\ next_id > 2

\* C2: the cache is keyed by the pair (backend kind, system prompt): a call
\* on a valid backend kind returns an instance built for exactly the
\* requested prompt, None being different from every prompt string, so two
\* requests with different prompts never share an instance.
C2_KeyedByPair ==
    (ret.outcome = "ok" /\ ret.provider \in {"openai", "ollama"}) =>
        /\ ret.handle.system_prompt = ret.prompt
        /\ ret.handle.kind = (IF ret.provider = "openai" THEN "OpenAI" ELSE "Ollama")

\* C3: a call issues a probe request exactly when the configured kind is
\* the local one and the cache has no entry for the key: one probe then,
\* none on a hit of either kind, none for the hosted kind, none for an
\* unknown kind; a cached local handle is returned without consulting the
\* backend.
C3_ProbeOnlyOnLocalMiss ==
    [][CallStep =>
        /\ ret'.probes =
            (IF ret'.provider = "ollama" /\ ret'.key \notin DOMAIN llm_cache
             THEN 1 ELSE 0)
        /\ (ret'.probes = 0) = (ret'.resp = NoResponse)
        /\ ret'.key \in DOMAIN llm_cache =>
            /\ ret'.outcome = "ok"
            /\ ret'.handle = llm_cache[ret'.key]]_vars

\* a local handle served from the cache without a probe
C3_Witness ==
    /\ ret.provider = "ollama"
    /\ ret.hit
    /\ ret.probes = 0
    /\ ret.outcome = "ok"
    /\ ret.handle.kind = "Ollama"

\* the four failing probe outcomes of the health check
FailureClass(resp) ==
    IF resp.net \in {"refused", "timeout", "http_error"} THEN "unreachable"
    ELSE IF resp.net = "ok" /\ resp.json = "invalid" THEN "not_json"
    ELSE IF /\ resp.net = "ok" /\ resp.json = "object" /\ resp.field # "null"
            /\ \A i \in 1..Len(resp.models) : resp.models[i].obj
    THEN IF resp.models = <<>> THEN "empty_list"
         ELSE IF \E i \in 1..Len(resp.models) :
                    resp.models[i].name \in
                        {Some(OLLAMA_MODEL), Some(OLLAMA_MODEL \o ":latest")}
              THEN "found"
              ELSE "model_missing"
    ELSE "malformed"

FailureClasses == {"unreachable", "not_json", "empty_list", "model_missing"}

\* C4: the message of a failed local call tells its failure class: no probe
\* answer of another of the four classes produces the same message.
C4_Distinguishable ==
    (ret.probes = 1 /\ FailureClass(ret.resp) \in FailureClasses) =>
        /\ ret.outcome = "ConnectionError"
        /\ \A r \in Responses :
            (FailureClass(r) \in FailureClasses
             /\ FailureClass(r) # FailureClass(ret.resp))
                => HealthCheck(r).msg # ret.msg

\* C5: a reachable probe whose payload is not JSON, or is JSON that is not
\* an object holding a list of model objects, fails with the 'invalid
\* response' ConnectionError naming the base URL, and nothing but a
\* ConnectionError ever leaves the local path.
C5_InvalidResponse ==
    /\ (ret.probes = 1 /\ FailureClass(ret.resp) \in {"not_json", "malformed"}) =>
        /\ ret.outcome = "ConnectionError"
        /\ \E e \in {JsonErrorText, "not a model listing"} :
            ret.msg = "Invalid response from Ollama at " \o OLLAMA_BASE_URL \o ": " \o e
        /\ ret.built = 0
    /\ ret.provider = "ollama" => ret.outcome \in {"ok", "ConnectionError"}

\* C6: a local miss whose probe returns a well-formed listing succeeds
\* exactly when the listing holds the configured model name, bare or with
\* ':latest' appended; the handle is then built from the configured model,
\* base URL, timeout and context window and the prompt, stored under the
\* key and returned.
C6_LocalSuccess ==
    (ret.probes = 1
     /\ FailureClass(ret.resp) \in {"found", "model_missing", "empty_list"}) =>
        /\ (ret.outcome = "ok") =
            (\E i \in 1..Len(ret.resp.models) :
                ret.resp.models[i].name \in {Some("llama3.2"), Some("llama3.2:latest")})
        /\ ret.outcome # "ok" => (ret.outcome = "ConnectionError" /\ ret.built = 0)
        /\ ret.outcome = "ok" =>
            /\ ret.built = 1
            /\ ret.handle.kind = "Ollama"
            /\ ret.handle.model = "llama3.2"
            /\ ret.handle.base = "http://localhost:11434"
            /\ ret.handle.request_timeout = 120
            /\ ret.handle.context_window = 8192
            /\ ret.handle.system_prompt = ret.prompt
            /\ ret.key \in DOMAIN llm_cache
            /\ llm_cache[ret.key] = ret.handle

\* the listing holds the model only under its ':latest' name
C6_Witness ==
    /\ ret.probes = 1
    /\ ret.outcome = "ok"
    /\ ret.resp.field = "list"
    /\ Len(ret.resp.models) = 2
    /\ \A i \in 1..2 : ret.resp.models[i].name # Some("llama3.2")
    /\ llm_cache[ret.key] = ret.handle
    /\ ret.handle.kind = "Ollama"

\* C7: a call made while the configured kind is neither 'openai' nor
\* 'ollama' raises ValueError naming the value and both options, probes
\* nothing, builds nothing and leaves the cache as it was.
C7_InvalidKindFails ==
    [][(CallStep /\ ret'.provider \notin {"openai", "ollama"}) =>
        /\ ret'.outcome = "ValueError"
        /\ ret'.msg = "Invalid LLM_PROVIDER: " \o ret'.provider
                      \o ". Must be 'openai' or 'ollama'."
        /\ ret'.probes = 0
        /\ ret'.built = 0
        /\ llm_cache' = llm_cache]_vars

(***************************************************************************)
(* Properties of the retry wrapper (specification SpecRetry).              *)
(***************************************************************************)
\* C8: query_with_retry invokes query at most 3 times and stops at the
\* first success: only the last invocation can have succeeded, a failure
\* reaches the caller only after exactly 3 failed invocations whatever the
\* exception types were, and a call that returned after n invocations saw
\* n - 1 failures followed by the success whose result it returns.
C8_AtMostThreeAttempts ==
    /\ rw_calls = Len(rw_log)
    /\ rw_calls <= 3
    /\ \A i \in 1..(Len(rw_log) - 1) : ~rw_log[i].ok
    /\ rw_pc \in {"attempt", "wait"} => rw_out = NoOutcome
    /\ rw_pc = "wait" => (rw_calls \in 1..2 /\ ~rw_log[rw_calls].ok)
    /\ rw_pc = "returned" =>
        /\ rw_calls \in 1..3
        /\ rw_log[rw_calls].ok
        /\ rw_out.kind = "return"
        /\ rw_out.result = rw_log[rw_calls].result
    /\ rw_pc = "raised" =>
        /\ rw_calls = 3
        /\ \A i \in 1..3 : ~rw_log[i].ok
        /\ rw_out.kind = "raise"

\* three failures of three different exception types were all retried
\* before the failure reached the caller
C8_Witness ==
    /\ rw_pc = "raised"
    /\ rw_calls = 3
    /\ rw_slept = <<1, 2>>
    /\ Cardinality({rw_log[i].exc.type : i \in 1..3}) = 3

\* C9: when all attempts failed, the caller receives the exception the last
\* attempt raised, same type and same value.
C9_LastExceptionReraised ==
    rw_pc = "raised" =>
        /\ rw_out.kind = "raise"
        /\ rw_out.exc = rw_log[Len(rw_log)].exc

(***************************************************************************)
(* Properties of the chat handlers (specification SpecBot).                *)
(***************************************************************************)
\* C10: the error text of a failed query replaces the placeholder only
\* after the query was attempted 3 times.
C10_RetriedBeforeError ==
    \A ts \in DOMAIN workers :
        (workers[ts].err \in QueryErrors
         /\ slack_msgs[ts].text = ErrorText(workers[ts].err))
            => workers[ts].calls = 3

\* a step of the worker started for placeholder ts
WorkerStep(ts) == ts \in DOMAIN workers /\ workers'[ts] # workers[ts]

\* C11: a worker exists only for a placeholder that was posted before the
\* worker was started: the step that starts a worker posts the 'working'
\* message in the worker's channel and performs no query itself; the query
\* runs in a later step of the worker, and every worker step posts no
\* message and changes no message but the worker's own placeholder, which
\* holds the final text after one update once the worker is done.
C11_PlaceholderThenUpdate ==
    [][/\ \A ts \in DOMAIN workers' \ DOMAIN workers :
            /\ Len(slack_msgs') = Len(slack_msgs) + 1
            /\ ts = Len(slack_msgs')
            /\ slack_msgs'[ts].text = <<THINKING_TEXT>>
            /\ slack_msgs'[ts].updates = 0
            /\ slack_msgs'[ts].channel = workers'[ts].channel
            /\ workers'[ts].ts = ts
            /\ workers'[ts].question # ""
            /\ workers'[ts].pc = "query"
            /\ workers'[ts].calls = 0
            /\ \A other \in DOMAIN workers : workers'[other] = workers[other]
       /\ \A ts \in DOMAIN workers :
            WorkerStep(ts) =>
                /\ DOMAIN workers' = DOMAIN workers
                /\ ts \in 1..Len(slack_msgs)
                /\ Len(slack_msgs') = Len(slack_msgs)
                /\ \A i \in 1..Len(slack_msgs) :
                    i # ts => slack_msgs'[i] = slack_msgs[i]
                /\ slack_msgs'[ts].channel = slack_msgs[ts].channel
                /\ slack_msgs'[ts].thread_ts = slack_msgs[ts].thread_ts
                /\ workers'[ts].calls > workers[ts].calls =>
                    /\ workers[ts].pc = "query"
                    /\ slack_msgs[ts].text = <<THINKING_TEXT>>
                    /\ slack_msgs' = slack_msgs
                /\ (workers'[ts].pc = "done" /\ workers'[ts].err = NoError) =>
                    /\ slack_msgs'[ts].text = workers'[ts].text
                    /\ slack_msgs'[ts].updates = 1]_vars

\* two questions were accepted, and the answer of the second one replaced
\* its own placeholder while the first placeholder still shows 'working'
C11_Witness ==
    /\ Len(slack_msgs) = 2
    /\ DOMAIN workers = {1, 2}
    /\ workers[2].pc = "done"
    /\ workers[2].err = NoError
    /\ workers[2].calls = 1
    /\ slack_msgs[2].text = <<format_response(CHOOSE r \in QueryResults(workers[2].question) : r.sources # <<>>)>>
    /\ slack_msgs[2].updates = 1
    /\ slack_msgs[1].text = <<THINKING_TEXT>>
    /\ workers[1].pc = "query"

RetrievedNodes == q_ret.response.source_nodes
ReturnedSources == q_ret.result.sources

\* C13: the Source of a retrieved chunk carries what the loader wrote as
\* the chunk's 'source': the page URL and the type docs for a chunk of the
\* docs-site loader, '{repo_name}/{relative path}' and the type code for a
\* chunk of the repository loader.
C13_ProvenanceCarried ==
    q_ret.kind = "return" =>
        \A i \in 1..Len(RetrievedNodes) :
            /\ i <= Len(ReturnedSources)
            /\ ReturnedSources[i].source_type = RetrievedNodes[i].metadata.source_type
            /\ ReturnedSources[i].source_path = RetrievedNodes[i].metadata.source
            /\ ReturnedSources[i].source_type = "docs" =>
                ReturnedSources[i].source_path \in {PageA, PageB, PageC}
            /\ ReturnedSources[i].source_type = "code" =>
                ReturnedSources[i].source_path \in
                    {<<"repo", "/", "src", "/", "app", ".", "py">>,
                     <<"repo", "/", "README", ".", "md">>}

\* C14: the snippet of a chunk is the chunk text when the text has at most
\* 200 characters, and otherwise the first 200 characters of the text
\* followed by three dots, 203 characters in all.
C14_SnippetCut ==
    q_ret.kind = "return" =>
        \A i \in 1..Len(ReturnedSources) :
            LET text == RetrievedNodes[i].text
                snippet == ReturnedSources[i].text_snippet
            IN  /\ Len(text) <= 200 => snippet = text
                /\ Len(text) > 200 =>
                    /\ Len(snippet) = 203
                    /\ \A j \in 1..200 : snippet[j] = text[j]
                    /\ \A j \in 201..203 : snippet[j] = "."

\* one result holds the snippet of a 250-character chunk, 203 long, next
\* to the unchanged texts of a 50-character and a 200-character chunk
C14_Witness ==
    /\ q_ret.kind = "return"
    /\ \E i, j, k \in 1..Len(ReturnedSources) :
        /\ Len(RetrievedNodes[i].text) = 250
        /\ Len(ReturnedSources[i].text_snippet) = 203
        /\ ReturnedSources[i].text_snippet[200] = "m"
        /\ Len(RetrievedNodes[j].text) = 50
        /\ ReturnedSources[j].text_snippet = Text(50)
        /\ Len(RetrievedNodes[k].text) = 200
        /\ ReturnedSources[k].text_snippet[200] = "t"
        /\ Len(ReturnedSources[k].text_snippet) = 200

\* C15: the Sources of a returned result match the nodes the engine
\* supplied one to one and in the engine's order, at most 5 of them; Source
\* i is built from node i alone and carries the node's score, or 0 when
\* the node has none; a response without source nodes gives no Source.
C15_SourcesFollowNodes ==
    q_ret.kind = "return" =>
        /\ Len(ReturnedSources) = Len(RetrievedNodes)
        /\ Len(ReturnedSources) <= 5
        /\ q_ret.result.answer = q_ret.response.answer
        /\ \A i \in 1..Len(ReturnedSources) :
            /\ ReturnedSources[i].score =
                (IF RetrievedNodes[i].score = None THEN 0
                 ELSE RetrievedNodes[i].score[1])
            /\ SubSeq(ReturnedSources[i].text_snippet, 1,
                      Min2(Len(RetrievedNodes[i].text), 200))
               = SubSeq(RetrievedNodes[i].text, 1,
                        Min2(Len(RetrievedNodes[i].text), 200))
            /\ ReturnedSources[i].source_type = RetrievedNodes[i].metadata.source_type
            /\ \A n \in {RetrievedNodes[j] : j \in 1..Len(RetrievedNodes)} :
                (n.text = RetrievedNodes[i].text
                 /\ n.metadata = RetrievedNodes[i].metadata
                 /\ n.score = RetrievedNodes[i].score)
                    => ReturnedSources[i] = SourceOf(n)

\* five nodes came back out of six stored chunks, two of them of the same
\* page, the last one without a score
C15_Witness ==
    /\ q_ret.kind = "return"
    /\ Len(kb_index) = 6
    /\ Len(ReturnedSources) = 5
    /\ RetrievedNodes[5].score = None
    /\ ReturnedSources[5].score = 0
    /\ ReturnedSources[1].score = 4
    /\ \E i, j \in 1..5 :
        /\ i < j
        /\ RetrievedNodes[i].metadata = RetrievedNodes[j].metadata
        /\ ReturnedSources[i].text_snippet # ReturnedSources[j].text_snippet
    /\ RetrievedNodes[1].metadata.source_type = "code"
    /\ ReturnedSources[1].source_type = "code"

(***************************************************************************)
(* Properties of format_response (specification SpecFormat).               *)
(***************************************************************************)
\* a path that looks like a web URL
LooksLikeWebUrl(path) == path # <<>> /\ path[1] = "http"

\* the two renderings of source number i
LinkLine(i, path) ==
    DigitStr(i) \o ". <" \o Concat(path) \o "|" \o Concat(path) \o ">"
CodeLine(i, path) ==
    DigitStr(i) \o ". " \o BACKTICK \o Concat(path) \o BACKTICK

\* the number of source lines of the formatted result
ShownCount == IF Len(fr_result.sources) < 3 THEN Len(fr_result.sources) ELSE 3

\* C16: every listed source is rendered as a link when its path looks
\* like a web URL and as inline code otherwise, whatever its source_type.
C16_LinkByPathAlone ==
    fr_out # None =>
        \A i \in 1..ShownCount :
            fr_out[1].lines[4 + i] =
                (IF LooksLikeWebUrl(fr_result.sources[i].source_path)
                 THEN LinkLine(i, fr_result.sources[i].source_path)
                 ELSE CodeLine(i, fr_result.sources[i].source_path))

\* C17: the call of format_response gives the answer, an empty line, the
\* separator and the 'Sources' heading followed by min(3, n) lines, line i
\* being the rendering of source i with the number i, joined by newlines,
\* and leaves the QueryResult as it was.
C17_ResponseShape ==
    [][fr_out' # None =>
        /\ fr_result' = fr_result
        /\ Len(fr_out'[1].lines) = 4 + ShownCount
        /\ fr_out'[1].lines[1] = fr_result.answer
        /\ fr_out'[1].lines[2] = ""
        /\ fr_out'[1].lines[3] = "---"
        /\ fr_out'[1].lines[4] = "*Sources:*"
        /\ \A i \in 1..ShownCount :
            fr_out'[1].lines[4 + i] \in
                {LinkLine(i, fr_result.sources[i].source_path),
                 CodeLine(i, fr_result.sources[i].source_path)}
        /\ fr_out'[1].text = JoinLines(fr_out'[1].lines)]_vars

\* a result with four sources was formatted: three source lines, in the
\* order of the result, the first a link and the second inline code
C17_Witness ==
    /\ fr_out # None
    /\ Len(fr_result.sources) = 4
    /\ Len(fr_out[1].lines) = 7
    /\ fr_result.sources[1] = DocsSource
    /\ fr_result.sources[2] = CodeSource
    /\ fr_out[1].lines[5] = "1. <https://a|https://a>"
    /\ fr_out[1].lines[6] = "2. ^repo/file.py^"

(***************************************************************************)
(* Properties of the docs-site loader (specification SpecLoader).          *)
(***************************************************************************)
RECURSIVE Flatten(_)
Flatten(seqs) == IF seqs = <<>> THEN <<>> ELSE seqs[1] \o Flatten(Tail(seqs))

\* the documentation pages among the locations of a sitemap
KeepDocs(locs) == SelectSeq(locs, LAMBDA u : u \in {PageA, PageB, PageC})

\* the retained URLs of a web in sitemap order: those of the top urlset, or
\* those of the children of the top index that could be fetched
ExpectedUrls(web) ==
    LET top == web.sitemaps[SITEMAP_URL]
    IN  IF top.sitemap_locs = <<>> THEN KeepDocs(top.url_locs)
        ELSE Flatten([i \in 1..Len(top.sitemap_locs) |->
                IF top.sitemap_locs[i] = None THEN <<>>
                ELSE IF ~web.sitemaps[top.sitemap_locs[i]].ok THEN <<>>
                ELSE KeepDocs(web.sitemaps[top.sitemap_locs[i]].url_locs)])

\* the Documents of the pages of the retained URLs that could be fetched
ExpectedDocuments(web) ==
    LET urls == ExpectedUrls(web)
    IN  Flatten([i \in 1..Len(urls) |->
            IF ~web.pages[urls[i]].ok THEN <<>>
            ELSE [j \in 1..Len(web.pages[urls[i]].texts) |->
                    [text |-> web.pages[urls[i]].texts[j],
                     metadata |-> [source |-> urls[i], source_type |-> "docs"]]]])

\* C18: when the top-level sitemap can be fetched, the loader returns, in
\* sitemap order, the tagged Documents of every retained URL whose page
\* could be fetched, whichever child sitemaps and pages failed.
C18_FailuresSkipped ==
    (ld_ret.kind # "none" /\ ld_web.sitemaps[SITEMAP_URL].ok) =>
        /\ ld_ret.kind = "return"
        /\ ld_ret.documents = ExpectedDocuments(ld_web)

\* the first child sitemap and the first page of the second one failed,
\* and the Document of the remaining page was returned
C18_Witness ==
    /\ ld_ret.kind = "return"
    /\ Len(ld_web.sitemaps[SITEMAP_URL].sitemap_locs) = 2
    /\ ~ld_web.sitemaps[ChildSitemap1].ok
    /\ ld_web.sitemaps[ChildSitemap2].url_locs = <<PageB, PageC>>
    /\ ~ld_web.pages[PageB].ok
    /\ ld_web.pages[PageC].ok
    /\ Len(ld_ret.documents) = 1
    /\ ld_ret.documents[1].metadata.source = PageC
    /\ ld_ret.documents[1].metadata.source_type = "docs"

\* C19: a call of load_docs_from_sitemap never raises, and it returns the
\* empty sequence when every fetch failed, the one of the top-level
\* sitemap included.
C19_NeverRaises ==
    /\ ld_ret.kind # "raise"
    /\ (/\ ld_ret.kind # "none"
        /\ \A u \in {SITEMAP_URL, ChildSitemap1, ChildSitemap2} : ~ld_web.sitemaps[u].ok
        /\ \A u \in {PageA, PageB, PageC} : ~ld_web.pages[u].ok)
            => (ld_ret.kind = "return" /\ ld_ret.documents = <<>>)

(***************************************************************************)
(* Properties of the inclusion predicate (specification SpecFilter).       *)
(***************************************************************************)
\* the paths of the model with an allowed extension and no excluded
\* directory among their components
AcceptedPaths ==
    {<<"app", ".", "py">>, <<"README", ".", "md">>, <<"Main", ".", "PY">>,
     <<"env", ".", "py">>, <<"src", "/", "x", ".", "js">>,
     <<"/", "tmp", "/", "repo_x", "/", "src", "/", "app", ".", "py">>}

\* C20: for a file of a known size the predicate answers yes exactly when
\* the extension, lower-cased, is allowed, the size is at most 100KB and
\* no component of the path is an excluded directory.
C20_InclusionPredicate ==
    (sf_out # None /\ sf_stat.exists /\ sf_stat.size # None) =>
        sf_out[1] = (sf_path \in AcceptedPaths /\ sf_stat.size[1] <= 102400)

\* a file with an upper-case extension and a size of exactly 100KB passes
C20_Witness ==
    /\ sf_out = Some(TRUE)
    /\ sf_path = <<"Main", ".", "PY">>
    /\ sf_stat.exists
    /\ sf_stat.size = Some(102400)

(***************************************************************************)
(* Properties of the re-index script (specification SpecReindex).          *)
(***************************************************************************)
\* the documents the loaders of the run returned, docs site first
LoadedBySources == ri.docs_loaded \o ri.code_loaded

\* C21: a re-index run calls Build at most once and only as its last step;
\* when it ends, every source the arguments select was attempted, whatever
\* the other loader did, a loader that raised added nothing, and either no
\* document was loaded, the exit status is 1 and Build was not called, or
\* Build was called exactly once with all loaded documents.
C21_BuildIffDocuments ==
    /\ Len(ri.builds) <= 1
    /\ ri.pc # "exit" => ri.builds = <<>>
    /\ ri.pc = "exit" =>
        /\ ~ri.code_only => ri.docs_kind # "skipped"
        /\ ~ri.docs_only => ri.code_kind # "skipped"
        /\ ri.docs_kind = "raise" => ri.docs_loaded = <<>>
        /\ ri.code_kind = "raise" => ri.code_loaded = <<>>
        /\ IF LoadedBySources = <<>>
           THEN ri.exit_code = Some(1) /\ ri.builds = <<>>
           ELSE ri.builds = <<LoadedBySources>>

\* a run whose docs loader raised and whose repository loader returned
\* documents has built the index from the repository's documents
C21_Witness ==
    /\ ri.pc = "exit"
    /\ ri.docs_kind = "raise"
    /\ ri.code_loaded # <<>>
    /\ ri.builds = <<ri.code_loaded>>
    /\ ri.exit_code = Some(0)

(***************************************************************************)
(* Properties of the settings (specification SpecSettings).                *)
(***************************************************************************)
\* the defaults of the fields that select and configure the backend
LocalSettingDefaults ==
    [LLM_PROVIDER |-> <<"openai">>, OLLAMA_MODEL |-> <<OLLAMA_MODEL>>,
     OLLAMA_BASE_URL |-> <<OLLAMA_BASE_URL>>, OLLAMA_TIMEOUT |-> <<OLLAMA_TIMEOUT>>,
     OLLAMA_CONTEXT_WINDOW |-> <<OLLAMA_CONTEXT_WINDOW>>]

\* C22: the object a get_settings call returns has the fields LLM_PROVIDER,
\* OLLAMA_MODEL, OLLAMA_BASE_URL, OLLAMA_TIMEOUT and OLLAMA_CONTEXT_WINDOW,
\* each holding the value the environment gave at the time of the call, or
\* its default ('openai', 'llama3.2', 'http://localhost:11434', 120.0,
\* 8192) when the variable was unset; no call depends on an earlier one.
C22_LocalSettingsExposed ==
    st_ret.called =>
        \A f \in DOMAIN LocalSettingDefaults :
            /\ f \in DOMAIN st_ret.settings
            /\ <<st_ret.settings[f]>> =
                    IF f \in DOMAIN st_ret.env /\ st_ret.env[f] # None
                    THEN st_ret.env[f]
                    ELSE LocalSettingDefaults[f]

(***************************************************************************)
(* Properties of get_llm under concurrent queries (specification           *)
(* SpecConc).                                                              *)
(***************************************************************************)
\* two handles built from the same configuration and system prompt
SameConfiguration(h1, h2) == [h1 EXCEPT !.id = 0] = [h2 EXCEPT !.id = 0]

\* C23 as stated: with queries calling get_llm concurrently, at most one
\* handle instance is built for a cache key between two clears, and a cache
\* entry once written is never removed or replaced except by a full clear.
C23_OneInstanceNeverReplaced ==
    [][/\ \A k \in DOMAIN ctor_count' : ctor_count'[k] <= 1
       /\ ~ClearStep =>
            \A k \in DOMAIN llm_cache :
                k \in DOMAIN llm_cache' /\ llm_cache'[k] = llm_cache[k]]_vars

\* C23 as amended: a cache entry once written is never removed except by a
\* full clear, and it is replaced only by the write of a concurrent call
\* that had missed the same key, with a handle of the same kind,
\* configuration and system prompt.
C23_ReplacedOnlyByConcurrentMiss ==
    [][~ClearStep =>
        \A k \in DOMAIN llm_cache :
            /\ k \in DOMAIN llm_cache'
            /\ llm_cache'[k] # llm_cache[k] =>
                \E t \in 1..MaxQueries :
                    /\ callers[t].pc = "built"
                    /\ callers[t].key = k
                    /\ ~callers[t].hit
                    /\ callers'[t].pc = "done"
                    /\ llm_cache'[k] = callers[t].llm
                    /\ SameConfiguration(llm_cache'[k], llm_cache[k])]_vars

\* two queries missed the same key, both built a handle and both wrote it:
\* the cache holds the handle of one of them while another key is cached too
C23_Witness ==
    \E t1, t2 \in 1..MaxQueries :
        /\ callers[t1].pc = "done" /\ callers[t2].pc = "done"
        /\ callers[t1].outcome = "ok" /\ callers[t2].outcome = "ok"
        /\ ~callers[t1].hit /\ ~callers[t2].hit
        /\ callers[t1].key = callers[t2].key
        /\ callers[t1].handle.id < callers[t2].handle.id
        /\ callers[t1].key \in DOMAIN llm_cache
        /\ llm_cache[callers[t1].key] = callers[t1].handle
        /\ Cardinality(DOMAIN llm_cache) = 2

\* the calls for key k that missed: the first requests for k
FirstRequests(k) ==
    {t \in 1..MaxQueries :
        callers[t].pc # "idle" /\ callers[t].key = k /\ ~callers[t].hit}

\* the calls for key k that have not returned yet
InFlight(k) ==
    {t \in FirstRequests(k) : callers[t].pc \in {"miss", "built"}}

\* the handles the first requests for k returned
ReturnedHandles(k) ==
    {callers[t].handle : t \in {u \in FirstRequests(k) :
                                    callers[u].pc = "done" /\ callers[u].outcome = "ok"}}

\* what holds of the callers and the cache in every state
RaceOutcome ==
    /\ \A t1, t2 \in 1..MaxQueries :
        /\ callers[t1].outcome = "ok" /\ callers[t2].outcome = "ok"
        /\ callers[t1].key = callers[t2].key
        => /\ SameConfiguration(callers[t1].handle, callers[t2].handle)
           /\ callers[t1].handle.system_prompt = Some(SYSTEM_PROMPT)
    /\ \A k \in DOMAIN ctor_count :
        ctor_count[k] <= Cardinality(FirstRequests(k))
    /\ \A k \in DOMAIN llm_cache :
        InFlight(k) = {} /\ ReturnedHandles(k) # {}
        => llm_cache[k] \in ReturnedHandles(k)

\* C24: under every interleaving of concurrent first requests for one key,
\* the callers get handles of the same configuration and system prompt,
\* every write puts the writer's handle in the cache (the last write wins),
\* once all have returned the one entry of the key is a handle one of them
\* built, every later call returns the cached entry without constructing,
\* and no more handles are constructed for the key than first requests
\* were made for it.
C24_BenignRace ==
    [][/\ RaceOutcome'
       /\ \A t \in 1..MaxQueries :
            /\ callers[t].pc = "built" /\ callers'[t].pc = "done"
               => /\ callers[t].key \in DOMAIN llm_cache'
                  /\ llm_cache'[callers[t].key] = callers[t].llm
                  /\ callers'[t].handle = callers[t].llm
            /\ callers[t].pc = "idle" /\ callers'[t].hit
               => /\ callers'[t].key \in DOMAIN llm_cache
                  /\ callers'[t].handle = llm_cache[callers'[t].key]
                  /\ UNCHANGED <<llm_cache, ctor_count, next_id>>]_vars

\* two first requests raced for a key and a third call came later: two
\* handles were built, the later call got the cached one, the handle of the
\* request that wrote last
C24_Witness ==
    \E t1, t2, t3 \in 1..MaxQueries :
        /\ FirstRequests(callers[t1].key) = {t1, t2}
        /\ t1 # t2
        /\ callers[t1].pc = "done" /\ callers[t2].pc = "done"
        /\ callers[t3].hit /\ callers[t3].key = callers[t1].key
        /\ CountOf(callers[t1].key) = 2
        /\ callers[t3].handle = callers[t2].handle
        /\ callers[t2].handle.id < callers[t1].handle.id

(***************************************************************************)
(* Properties of concurrent questions (specification SpecBot).             *)
(***************************************************************************)
\* the text a finished worker is to leave in its placeholder: the formatted
\* answer to its own question, or the message of the error its own query
\* raised
OwnText(w) == IF w.err = NoError THEN w.text ELSE ErrorText(w.err)

\* no update of the worker's placeholder has failed
UpdatesSucceeded(w) == w.pc # "crashed" /\ w.err # SlackApiError

\* every placeholder is updated at most once, not at all before its query
\* call ended, and a finished worker whose updates succeeded left the text
\* of its own question there
DeliveredOnce ==
    \A ts \in DOMAIN workers :
        LET w == workers[ts]
            m == slack_msgs[ts]
        IN  /\ m.updates <= 1
            /\ w.pc \in {"query", "update", "report"} =>
                    m.updates = 0 /\ m.text = <<THINKING_TEXT>>
            /\ (w.pc = "done" /\ UpdatesSucceeded(w)) =>
                /\ m.updates = 1
                /\ m.text = OwnText(w)
                /\ w.calls = 1
                /\ w.err = NoError =>
                    \E r \in QueryResults(w.question) :
                        m.text = <<format_response(r)>>
                /\ w.err # NoError => w.err \in QueryErrors

\* how far a worker has come
Rank(pc) ==
    IF pc = "query" THEN 0 ELSE IF pc = "update" THEN 1
    ELSE IF pc = "report" THEN 2 ELSE 3

\* every worker that has not ended can take its next step, whatever the
\* other workers do
NeverBlocked ==
    \A ts \in DOMAIN workers :
        workers[ts].pc \in {"query", "update", "report"} => ENABLED WorkerRun(ts)

\* C25: for every set of questions in flight and every interleaving of their
\* workers, a placeholder is updated at most once and, when the worker's
\* updates succeed, exactly once with the formatted answer or the error
\* message of the worker's own question; a step of one worker changes no
\* other worker and no other message, whatever the step's outcome; no
\* worker is ever blocked and every step brings it nearer to its end, so
\* that every accepted question's placeholder is updated once its worker
\* has had its turns, unless an update fails.
C25_EachQuestionAnswered ==
    /\ []DeliveredOnce
    /\ []NeverBlocked
    /\ [][\A ts \in DOMAIN workers :
            WorkerStep(ts) =>
                /\ Rank(workers'[ts].pc) > Rank(workers[ts].pc)
                /\ \A other \in DOMAIN workers \ {ts} :
                        workers'[other] = workers[other]
                /\ \A i \in 1..Len(slack_msgs) :
                        i # ts => slack_msgs'[i] = slack_msgs[i]]_vars

\* two questions were in flight: the query of the first failed and its
\* placeholder shows the error, the second one was answered
C25_Witness ==
    \E t1, t2 \in DOMAIN workers :
        /\ workers[t1].pc = "done" /\ workers[t2].pc = "done"
        /\ workers[t1].err \in QueryErrors
        /\ workers[t2].err = NoError
        /\ slack_msgs[t1].text = ErrorText(workers[t1].err)
        /\ slack_msgs[t2].text = workers[t2].text
        /\ slack_msgs[t1].updates = 1 /\ slack_msgs[t2].updates = 1

(***************************************************************************)
(* Properties of the loader's pacing (specification SpecLoader).           *)
(***************************************************************************)
\* C26: in every run of the docs-site loader a delay elapses between every
\* two consecutive page requests: a page request that is not the last one
\* of the run, whether it succeeded or failed, is followed by a sleep before
\* the next page request.
C26_DelayBetweenRequests ==
    \A i \in 1..(Len(ld_ret.trace) - 1) :
        ld_ret.trace[i].op = "request" => ld_ret.trace[i + 1].op = "sleep"

(***************************************************************************)
(* Failures and backend kinds of the provider (specification Spec).        *)
(***************************************************************************)
\* C27: a get_llm call that fails (probe unreachable, invalid response,
\* model missing, unknown backend kind) leaves the cache, the constructor
\* counts and the key's absence exactly as they were and builds nothing;
\* when it fails on the local backend it has made exactly one probe
\* request; and the call that follows a failed one with the same key on the
\* local backend probes again, once, and succeeds with a local handle
\* whenever its probe finds the backend healthy.
C27_FailureNotRemembered ==
    [][CallStep =>
        /\ ret'.outcome # "ok" =>
            /\ llm_cache' = llm_cache
            /\ ctor_count' = ctor_count
            /\ next_id' = next_id
            /\ ret'.key \notin DOMAIN llm_cache'
            /\ ret'.built = 0
            /\ ret'.handle = NoHandle
            /\ ret'.probes = IF ret'.provider = "ollama" THEN 1 ELSE 0
        /\ (/\ ret.outcome \notin {"none", "ok"}
            /\ ret'.key = ret.key
            /\ ret'.provider = "ollama") =>
            /\ ret'.probes = 1
            /\ ~ret'.hit
            /\ HealthCheck(ret'.resp).outcome = "ok" =>
                /\ ret'.outcome = "ok"
                /\ ret'.handle.kind = "Ollama"
                /\ llm_cache'[ret'.key] = ret'.handle]_vars

\* a call on the local backend failed on a listing without the model while
\* another key is cached: the cache still holds that entry alone
C27_Witness ==
    /\ ret.outcome = "ConnectionError"
    /\ ret.provider = "ollama"
    /\ ret.resp.field = "list"
    /\ ret.probes = 1
    /\ Cardinality(DOMAIN llm_cache) = 1
    /\ ret.key \notin DOMAIN llm_cache

\* the class of the handle a configured backend kind stands for
HandleKind(provider) ==
    IF provider = "openai" THEN "OpenAI"
    ELSE IF provider = "ollama" THEN "Ollama" ELSE "none"

\* C28: after any sequence of get_llm calls and changes of the configured
\* backend kind, every cache entry stored under a key of kind "openai" or
\* "ollama" is a handle of that kind, and every successful call returned a
\* handle of the kind that was configured when it was made.
C28_KindsNeverMixed ==
    /\ \A k \in DOMAIN llm_cache, p \in {"openai", "ollama"} :
        (\E sp \in Prompts : k = CacheKey(p, sp))
            => llm_cache[k].kind = HandleKind(p)
    /\ ret.outcome = "ok" => ret.handle.kind = HandleKind(ret.provider)

(***************************************************************************)
(* Properties of the event filters (specification SpecBot).                *)
(***************************************************************************)
\* a text that holds nothing but the given tokens
OnlyTokens(toks, allowed) == \A i \in 1..Len(toks) : toks[i] \in allowed

\* a DM event the handler is to ignore: not of channel type 'im', of any
\* subtype (among them the bot's own posts and the updates of messages),
\* or without text
IgnoredDm(e) ==
    \/ e.channel_type # "im"
    \/ e.subtype # None
    \/ e.text = None
    \/ OnlyTokens(e.text[1], {" "})

\* a mention that asks nothing once the mention tokens are removed
EmptyMention(e) == OnlyTokens(e.text, {MentionToken, " "})

\* the step posted the one message text and started no worker
PostedOnly(text) ==
    /\ Len(slack_msgs') = Len(slack_msgs) + 1
    /\ slack_msgs'[Len(slack_msgs')].text = <<text>>
    /\ SubSeq(slack_msgs', 1, Len(slack_msgs)) = slack_msgs
    /\ workers' = workers

\* the step posted the placeholder and started one worker for a question
\* that is not empty
StartedQuery ==
    /\ Len(slack_msgs') = Len(slack_msgs) + 1
    /\ slack_msgs'[Len(slack_msgs')].text = <<THINKING_TEXT>>
    /\ DOMAIN workers' = DOMAIN workers \cup {Len(slack_msgs')}
    /\ Len(slack_msgs') \notin DOMAIN workers
    /\ workers'[Len(slack_msgs')].question # ""
    /\ workers'[Len(slack_msgs')].pc = "query"

\* C29: a DM event that is not of channel type 'im', or carries any subtype,
\* or has no text posts nothing and starts no query; a mention whose text
\* is empty once the mention tokens are removed posts one usage hint and
\* starts no query; every other event starts exactly one query, for a
\* question that is not empty; and no step of a worker (the bot's own
\* updates) posts a message or starts a query.
C29_OnlyUserQuestionsStartQueries ==
    [][/\ \A e \in MessageEvents :
            HandleDm(e) =>
                IF IgnoredDm(e) THEN UNCHANGED <<slack_msgs, workers>>
                ELSE StartedQuery
       /\ \A e \in MentionEvents :
            HandleMention(e) =>
                IF EmptyMention(e) THEN PostedOnly(USAGE_TEXT)
                ELSE StartedQuery
       /\ \A ts \in DOMAIN workers :
            WorkerStep(ts) =>
                /\ DOMAIN workers' = DOMAIN workers
                /\ Len(slack_msgs') = Len(slack_msgs)
       /\ DOMAIN workers' # DOMAIN workers => StartedQuery]_vars

\* an empty mention was answered by the usage hint, then a DM started the
\* only query: one worker for two messages
C29_Witness ==
    /\ Len(slack_msgs) = 2
    /\ slack_msgs[1].text = <<USAGE_TEXT>>
    /\ DOMAIN workers = {2}
    /\ workers[2].question = "why?"
    /\ workers[2].channel = "D1"

(***************************************************************************)
(* Deletion and the re-index run (specification SpecReindex).              *)
(***************************************************************************)
\* every stored chunk is of the given source type
OnlyOfType(source_type) ==
    \A i \in 1..Len(kb_index) : kb_index[i].metadata.source_type = source_type

\* C30: in a re-index run the deletion of the collection is the first
\* operation, before any loader, and it is not undone: while the loaders
\* run the collection is empty and nothing of the previous collection is
\* stored again unless the run loaded it again; a run that ends with no
\* document exits with a status that is not zero and leaves the collection
\* deleted; a docs-only run leaves chunks of the docs site only, a code-only
\* run chunks of the repository only.
C30_DeletedBeforeLoading ==
    /\ ri.trace # <<>> =>
        /\ ri.trace[1] = "delete"
        /\ \A i \in 2..Len(ri.trace) : ri.trace[i] # "delete"
    /\ ri.pc \in {"docs", "code", "check"} => kb_index = <<>>
    /\ ri.pc = "exit" =>
        /\ \A i \in 1..Len(kb_index) :
            \E j \in 1..Len(ri.documents) : kb_index[i] = ri.documents[j]
        /\ ri.documents = <<>> => ri.exit_code = Some(1) /\ kb_index = <<>>
        /\ (ri.docs_only /\ ~ri.code_only) => OnlyOfType("docs")
        /\ (ri.code_only /\ ~ri.docs_only) => OnlyOfType("code")

\* a docs-only run on a collection that held repository chunks has ended:
\* it stored chunks of the docs site and none of the previous chunks
C30_Witness ==
    /\ ri.pc = "exit"
    /\ ri.docs_only /\ ~ri.code_only
    /\ \E i \in 1..Len(ri.previous) : ri.previous[i].metadata.source_type = "code"
    /\ kb_index # <<>>
    /\ OnlyOfType("docs")
====
